---- MODULE Spec2Model ----
(***************************************************************************)
(* Model of the numerical analysis engine of the RTA Analysis Toolkit:     *)
(*   - utils/numerical.utils.ts            (numerical kernel)              *)
(*   - services/blasingame-calculation.service.ts                          *)
(*   - services/type-curve-matching.service.ts                             *)
(* of the import of a CSV file and the storage of the last import:         *)
(*   - services/data-import.service.ts     (parseCSV)                      *)
(*   - services/import-persistence.service.ts                              *)
(* and of the application state held by AppStateService.                   *)
(*                                                                         *)
(* JavaScript numbers are IEEE 754 doubles, modelled bit for bit as        *)
(* <<s, h, l, e>>, the value s * (h * 2^28 + l) * 2^(e - 52):              *)
(*   s           the sign, 1 or -1; 0 for NaN,                             *)
(*   h, l        the 53 binary digits, l < 2^28; 2^24 <= h < 2^25 for a    *)
(*               normal number, h < 2^24 for a subnormal one and for 0,    *)
(*   e           the binary order, -1022..1023; 1024 for Infinity and NaN. *)
(* +0 and -0 are <<1, 0, 0, -1022>> and <<-1, 0, 0, -1022>>.               *)
(* Add, Sub, Mul, Div and MathSqrt return the double nearest to the exact  *)
(* result, ties to the even one, as the operators and Math.sqrt do,        *)
(* with overflow to Infinity and gradual underflow.  MathLog, MathLog10    *)
(* and MathExp follow the fdlibm routines the engine runs.                 *)
(* Gt, Lt, Ge, Le and Eq are the operators > < >= <= and ===: false on     *)
(* NaN, and 0 equal to -0.  The TLA+ equality of two numbers is the        *)
(* identity of their bits.                                                 *)
(* A read outside an array (undefined) behaves as NaN in every arithmetic  *)
(* operation, comparison and isFinite test, and is modelled as NaN.        *)
(* Num(n) is the double of the integer n, Norm(n, d) the double nearest to *)
(* n/d, which is the value of a decimal literal (0.35 is Norm(35, 100)),   *)
(* and Scaled(v, k) is v * 2^k.                                            *)
(* Definitions take the values they use more than once as parameters.      *)
(***************************************************************************)
EXTENDS Integers, Sequences, FiniteSets, TLC

\* the call in flight: position, operation, arguments, locals, return value
VARIABLES pc, op, args, locals, ret
\* the caller's side: its array objects, the arrays of the BlasingameOutput
\* it holds, and the calls it has made
VARIABLES heap, out, log

vars == <<pc, op, args, locals, ret, heap, out, log>>

(***************************************************************************)
(* JavaScript number arithmetic                                            *)
(***************************************************************************)
NaN == <<0, 0, 0, 1024>>

PosInf == <<1, 0, 0, 1024>>

NegInf == <<-1, 0, 0, 1024>>

Zero == <<1, 0, 0, -1022>>

NegZero == <<-1, 0, 0, -1022>>

Infinity(s) == <<s, 0, 0, 1024>>

SignedZero(s) == <<s, 0, 0, -1022>>

IsNaN(v) == v[1] = 0

IsFinite(v) == v[4] < 1024

IsZero(v) == v[2] = 0 /\ v[3] = 0 /\ v[4] = -1022

Neg(v) == <<-v[1], v[2], v[3], v[4]>>

\* an integer N >= 0 of up to 59 binary digits is the pair <<H, L>> with
\* N = H * 2^28 + L and L < 2^28 = 268435456
\* the number of binary digits of n >= 0
RECURSIVE BitLen(_)
BitLen(n) ==
  IF n >= 4096 THEN 12 + BitLen(n \div 4096)
  ELSE IF n >= 64 THEN 6 + BitLen(n \div 64)
  ELSE IF n >= 8 THEN 3 + BitLen(n \div 8)
  ELSE IF n >= 4 THEN 3
  ELSE IF n >= 2 THEN 2
  ELSE n

PairBitLen(N) == IF N[1] > 0 THEN 28 + BitLen(N[1]) ELSE BitLen(N[2])

\* floor(N / 2^j)
RECURSIVE ShiftRight(_, _)
ShiftRight(N, j) ==
  IF j >= 60 THEN <<0, 0>>
  ELSE IF j >= 28
    THEN ShiftRight(<<N[1] \div 268435456, N[1] % 268435456>>, j - 28)
  ELSE <<N[1] \div 2^j, N[2] \div 2^j + (N[1] % 2^j) * 2^(28 - j)>>

\* N mod 2^j is not 0
RECURSIVE LowBits(_, _)
LowBits(N, j) ==
  IF j = 0 THEN FALSE
  ELSE IF j >= 60 THEN N # <<0, 0>>
  ELSE IF j >= 28
    THEN N[2] # 0 \/ LowBits(<<N[1] \div 268435456, N[1] % 268435456>>, j - 28)
  ELSE N[2] % 2^j # 0

\* N * 2^j, a product below 2^59
RECURSIVE ShiftLeft(_, _)
ShiftLeft(N, j) ==
  IF j >= 28 THEN ShiftLeft(<<N[2], 0>>, j - 28)
  ELSE <<N[1] * 2^j + N[2] \div 2^(28 - j), (N[2] % 2^(28 - j)) * 2^j>>

PairAdd(M, N) ==
  <<M[1] + N[1] + (M[2] + N[2]) \div 268435456, (M[2] + N[2]) % 268435456>>

\* M - N for M >= N
PairSub(M, N) ==
  IF M[2] < N[2] THEN <<M[1] - N[1] - 1, M[2] - N[2] + 268435456>>
  ELSE <<M[1] - N[1], M[2] - N[2]>>

PairGe(M, N) == M[1] > N[1] \/ (M[1] = N[1] /\ M[2] >= N[2])

Twice(N) == PairAdd(N, N)

\* the double of sign s with the digits q < 2^53 and the last digit worth
\* 2^t; q = 2^53 is 2^52 with the last digit worth 2^(t+1); a binary order
\* above 1023 is an infinity
Packed(s, q, t) ==
  IF q[1] = 33554432
    THEN (IF t + 53 > 1023 THEN Infinity(s) ELSE <<s, 16777216, 0, t + 53>>)
  ELSE IF t + 52 > 1023 THEN Infinity(s)
  ELSE <<s, q[1], q[2], t + 52>>

\* P holds the digits to keep and one more: the kept digits go up by one
\* when that digit is 1 and either a lower digit is set (rest) or the last
\* kept digit is odd (round to nearest, ties to even)
Rounded(s, P, rest, t) ==
  Packed(s,
         PairAdd(ShiftRight(P, 1),
                 <<0, IF P[2] % 2 = 1 /\ (rest \/ (P[2] \div 2) % 2 = 1)
                        THEN 1 ELSE 0>>),
         t)

\* Pack with the worth 2^t of the last digit of the result
PackAt(s, N, x, sticky, t) ==
  IF t <= x THEN Packed(s, ShiftLeft(N, x - t), t)
  ELSE Rounded(s, ShiftRight(N, t - x - 1),
               sticky \/ LowBits(N, t - x - 1), t)

\* the double nearest to s * N * 2^x for N > 0, or to a value just above it
\* when sticky: 53 digits are kept, fewer below 2^-1022 where the last
\* digit is worth 2^-1074
Pack(s, N, x, sticky) ==
  IF N = <<0, 0>> THEN SignedZero(s)
  ELSE PackAt(s, N, x, sticky,
              IF x + PairBitLen(N) - 53 > -1074
                THEN x + PairBitLen(N) - 53 ELSE -1074)

\* the double of an integer below 2^31 in size
Num(n) ==
  IF n >= 0 THEN Pack(1, <<n \div 268435456, n % 268435456>>, 0, FALSE)
  ELSE Pack(-1, <<(-n) \div 268435456, (-n) % 268435456>>, 0, FALSE)

\* the digits of the smaller term d places down, with a last digit 1 for
\* the digits lost
Aligned(W, d) ==
  IF LowBits(W, d) /\ ShiftRight(W, d)[2] % 2 = 0
    THEN PairAdd(ShiftRight(W, d), <<0, 1>>)
  ELSE ShiftRight(W, d)

AddDigits(sa, sb, A, B, x) ==
  IF sa = sb THEN Pack(sa, PairAdd(A, B), x, FALSE)
  ELSE IF A = B THEN Zero
  ELSE IF PairGe(A, B) THEN Pack(sa, PairSub(A, B), x, FALSE)
  ELSE Pack(sb, PairSub(B, A), x, FALSE)

\* a + b for finite a, b other than 0 with a[4] >= b[4]: three digits
\* below the last one of a are kept for the rounding
AddFinite(a, b) ==
  AddDigits(a[1], b[1], ShiftLeft(<<a[2], a[3]>>, 3),
            Aligned(ShiftLeft(<<b[2], b[3]>>, 3), a[4] - b[4]), a[4] - 55)

Add(a, b) ==
  IF IsNaN(a) \/ IsNaN(b) THEN NaN
  ELSE IF ~IsFinite(a) THEN (IF ~IsFinite(b) /\ a[1] # b[1] THEN NaN ELSE a)
  ELSE IF ~IsFinite(b) THEN b
  ELSE IF IsZero(a) THEN (IF IsZero(b) /\ a[1] # b[1] THEN Zero ELSE b)
  ELSE IF IsZero(b) THEN a
  ELSE IF a[4] >= b[4] THEN AddFinite(a, b)
  ELSE AddFinite(b, a)

Sub(a, b) == Add(a, Neg(b))

\* <<H, L, e>> with 2^52 <= H * 2^28 + L < 2^53, the value of the finite
\* v # 0 being (H * 2^28 + L) * 2^(e - 52); e is below -1022 when v is
\* subnormal
NormalBy(v, k) ==
  <<ShiftLeft(<<v[2], v[3]>>, k)[1], ShiftLeft(<<v[2], v[3]>>, k)[2], v[4] - k>>

Normal(v) ==
  IF v[2] >= 16777216 THEN <<v[2], v[3], v[4]>>
  ELSE NormalBy(v, 53 - PairBitLen(<<v[2], v[3]>>))

\* the four digits of 14 bits of x, lowest first
Limbs(x) ==
  <<x[2] % 16384, x[2] \div 16384, x[1] % 16384, x[1] \div 16384>>

\* the sums of the digit products of equal weight
Columns(a, b) ==
  <<a[1] * b[1],
    a[1] * b[2] + a[2] * b[1],
    a[1] * b[3] + a[2] * b[2] + a[3] * b[1],
    a[1] * b[4] + a[2] * b[3] + a[3] * b[2] + a[4] * b[1],
    a[2] * b[4] + a[3] * b[3] + a[4] * b[2],
    a[3] * b[4] + a[4] * b[3],
    a[4] * b[4]>>

\* the eight digits of 14 bits of the product
RECURSIVE Carried(_, _, _)
Carried(cols, i, carry) ==
  IF i > 7 THEN <<carry>>
  ELSE <<(cols[i] + carry) % 16384>>
         \o Carried(cols, i + 1, (cols[i] + carry) \div 16384)

\* the product without its 50 lowest digits, which are sticky
MulDigits(s, c, x) ==
  Pack(s,
       <<c[6] \div 256 + c[7] * 64 + c[8] * 1048576,
         c[4] \div 256 + c[5] * 64 + (c[6] % 256) * 1048576>>,
       x,
       c[1] # 0 \/ c[2] # 0 \/ c[3] # 0 \/ c[4] % 256 # 0)

MulFinite(s, x, y) ==
  MulDigits(s, Carried(Columns(Limbs(x), Limbs(y)), 1, 0), x[3] + y[3] - 54)

Mul(a, b) ==
  IF IsNaN(a) \/ IsNaN(b) THEN NaN
  ELSE IF ~IsFinite(a) THEN (IF IsZero(b) THEN NaN ELSE Infinity(a[1] * b[1]))
  ELSE IF ~IsFinite(b) THEN (IF IsZero(a) THEN NaN ELSE Infinity(a[1] * b[1]))
  ELSE IF IsZero(a) \/ IsZero(b) THEN SignedZero(a[1] * b[1])
  ELSE MulFinite(a[1] * b[1], Normal(a), Normal(b))

\* the digits of a difference of digit products, lowest first: every digit
\* but the highest is brought into 0..16383, the highest keeps the sign
RECURSIVE Borrowed(_, _, _)
Borrowed(t, i, carry) ==
  IF i = Len(t) THEN <<t[i] + carry>>
  ELSE <<(t[i] + carry) % 16384>>
         \o Borrowed(t, i + 1, (t[i] + carry) \div 16384)

\* the next digit of the quotient is at most this and at least this less 2:
\* the two highest digits of the remainder by the highest digit of d, which
\* is 8192 or more
Estimate(r, d) ==
  IF (r[4] * 16384 + r[3]) \div d[4] > 16383 THEN 16383
  ELSE (r[4] * 16384 + r[3]) \div d[4]

\* r * 16384 - q * d
Reduced(r, d, q) ==
  Borrowed(<<-(q * d[1]), r[1] - q * d[2], r[2] - q * d[3], r[3] - q * d[4],
             r[4]>>, 1, 0)

\* <<digit, remainder>>: the digit goes down until the remainder is not
\* negative
RECURSIVE Settled(_, _, _)
Settled(u, d, q) ==
  IF u[5] >= 0 THEN <<q, u>>
  ELSE Settled(Borrowed(<<u[1] + d[1], u[2] + d[2], u[3] + d[3], u[4] + d[4],
                          u[5]>>, 1, 0), d, q - 1)

\* n more digits of 14 bits of the quotient of r by d, for r < d, after the
\* digits qs: <<digits, remainder>>
RECURSIVE DivLimbs(_, _, _, _)
DivNext(st, d, qs, n) ==
  DivLimbs(<<st[2][1], st[2][2], st[2][3], st[2][4]>>, d, Append(qs, st[1]),
           n - 1)

DivLimbs(r, d, qs, n) ==
  IF n = 0 THEN <<qs, r>>
  ELSE DivNext(Settled(Reduced(r, d, Estimate(r, d)), d, Estimate(r, d)),
               d, qs, n)

DivDigits(s, QR, x) ==
  Pack(s, <<QR[1][1] * 16384 + QR[1][2], QR[1][3] * 16384 + QR[1][4]>>, x,
       QR[2] # <<0, 0, 0, 0>>)

\* the quotient of the digits of x by those of y times 2^55, what is left
\* over sticky: four digits of 14 bits of 4x / 8y
DivFinite(s, x, y) ==
  DivDigits(s, DivLimbs(Limbs(ShiftLeft(<<x[1], x[2]>>, 2)),
                        Limbs(ShiftLeft(<<y[1], y[2]>>, 3)), <<>>, 4),
            x[3] - y[3] - 55)

Div(a, b) ==
  IF IsNaN(a) \/ IsNaN(b) THEN NaN
  ELSE IF ~IsFinite(a) THEN (IF ~IsFinite(b) THEN NaN ELSE Infinity(a[1] * b[1]))
  ELSE IF ~IsFinite(b) THEN SignedZero(a[1] * b[1])
  ELSE IF IsZero(b) THEN (IF IsZero(a) THEN NaN ELSE Infinity(a[1] * b[1]))
  ELSE IF IsZero(a) THEN SignedZero(a[1] * b[1])
  ELSE DivFinite(a[1] * b[1], Normal(a), Normal(b))

\* -1, 0, 1 as a < b, a = b, a > b, for a and b other than NaN; 0 = -0
Cmp(a, b) ==
  IF IsZero(a) /\ IsZero(b) THEN 0
  ELSE IF a[1] # b[1] THEN (IF a[1] > b[1] THEN 1 ELSE -1)
  ELSE IF a[4] # b[4] THEN (IF a[4] > b[4] THEN a[1] ELSE -a[1])
  ELSE IF a[2] # b[2] THEN (IF a[2] > b[2] THEN a[1] ELSE -a[1])
  ELSE IF a[3] # b[3] THEN (IF a[3] > b[3] THEN a[1] ELSE -a[1])
  ELSE 0

\* comparisons with NaN are false
Gt(a, b) == ~IsNaN(a) /\ ~IsNaN(b) /\ Cmp(a, b) > 0

Lt(a, b) == ~IsNaN(a) /\ ~IsNaN(b) /\ Cmp(a, b) < 0

Ge(a, b) == ~IsNaN(a) /\ ~IsNaN(b) /\ Cmp(a, b) >= 0

Le(a, b) == ~IsNaN(a) /\ ~IsNaN(b) /\ Cmp(a, b) <= 0

\* a === b
Eq(a, b) == ~IsNaN(a) /\ ~IsNaN(b) /\ Cmp(a, b) = 0

\* Math.max and Math.min: NaN if either is NaN, and -0 is below 0
MathMax(a, b) ==
  IF IsNaN(a) \/ IsNaN(b) THEN NaN
  ELSE IF Cmp(a, b) = 0 THEN (IF a[1] >= b[1] THEN a ELSE b)
  ELSE IF Cmp(a, b) > 0 THEN a
  ELSE b

MathMin(a, b) ==
  IF IsNaN(a) \/ IsNaN(b) THEN NaN
  ELSE IF Cmp(a, b) = 0 THEN (IF a[1] <= b[1] THEN a ELSE b)
  ELSE IF Cmp(a, b) < 0 THEN a
  ELSE b

MathAbs(v) == IF IsNaN(v) THEN NaN ELSE <<1, v[2], v[3], v[4]>>

\* v * 2^k
Scaled(v, k) ==
  IF ~IsFinite(v) \/ IsZero(v) THEN v
  ELSE Pack(v[1], <<v[2], v[3]>>, v[4] - 52 + k, FALSE)

\* the double nearest to n/d for integers n and d # 0: the value of a
\* decimal literal such as 0.35 = Norm(35, 100)
Norm(n, d) == Div(Num(n), Num(d))

\* a value beyond every sum the callers form: 2^600
Huge == Scaled(Num(1), 600)

\* (int) v for a finite v below 2^31 in size
Trunc(v) ==
  IF v[4] < 0 THEN 0
  ELSE v[1] * (ShiftRight(<<v[2], v[3]>>, 52 - v[4])[1] * 268435456
               + ShiftRight(<<v[2], v[3]>>, 52 - v[4])[2])

\* a[i] for the 0-based index i; a read outside the array gives undefined,
\* which is NaN in arithmetic, comparisons and isFinite
At(a, i) == IF i >= 0 /\ i < Len(a) THEN a[i + 1] ELSE NaN

(***************************************************************************)
(* Math.sqrt, Math.log, Math.log10, Math.exp.  The square root is the      *)
(* double nearest to the root.  The logarithms and the exponential follow  *)
(* the fdlibm routines e_log.c, e_log10.c and e_exp.c step by step, every  *)
(* step in double arithmetic; the engine computes them by these routines,  *)
(* and an engine with another routine returns a value within one unit of   *)
(* the last binary digit of it (two units for Math.log10).                 *)
(***************************************************************************)
\* one more digit of the root: rem is the remainder with the next two
\* digits of N appended
SqrtStep(N, i, r, rem) ==
  IF PairGe(rem, PairAdd(Twice(Twice(r)), <<0, 1>>))
    THEN <<PairAdd(Twice(r), <<0, 1>>),
           PairSub(rem, PairAdd(Twice(Twice(r)), <<0, 1>>))>>
  ELSE <<Twice(r), rem>>

\* digits 53 - 2i and 52 - 2i of N, which has 54 digits followed by zeros
DigitPair(N, i) == IF i < 27 THEN ShiftRight(N, 52 - 2 * i)[2] % 4 ELSE 0

\* the root of N * 2^56 digit by digit: <<root, remainder>>
RECURSIVE SqrtBits(_, _, _)
SqrtBits(N, i, rr) ==
  IF i = 55 \/ rr[1][1] < 0 THEN rr
  ELSE SqrtBits(N, i + 1,
                SqrtStep(N, i, rr[1],
                         PairAdd(Twice(Twice(rr[2])), <<0, DigitPair(N, i)>>)))

SqrtDigits(rr, x) == Pack(1, rr[1], x, rr[2] # <<0, 0>>)

\* the root of N * 2^E for an even E
SqrtFinite(N, E) ==
  SqrtDigits(SqrtBits(N, 0, <<(<<0, 0>>), (<<0, 0>>)>>), (E - 56) \div 2)

SqrtNormal(x) ==
  IF (x[3] - 52) % 2 = 1 THEN SqrtFinite(Twice(<<x[1], x[2]>>), x[3] - 53)
  ELSE SqrtFinite(<<x[1], x[2]>>, x[3] - 52)

MathSqrt(v) ==
  IF IsNaN(v) THEN NaN
  ELSE IF IsZero(v) THEN v
  ELSE IF v[1] < 0 THEN NaN
  ELSE IF ~IsFinite(v) THEN v
  ELSE SqrtNormal(Normal(v))

\* 0.6931471803691238 (3fe62e42 fee00000)
ln2_hi == <<1, 23258159, 249561088, -1>>

\* 1.9082149292705877e-10 (3dea39ef 35793c76)
ln2_lo == <<1, 27500275, 91831414, -33>>

\* 0.6666666666666735 (3fe55555 55555593)
Lg1 == <<1, 22369621, 89478547, -1>>

\* 0.3999999999940942 (3fd99999 9997fa04)
Lg2 == <<1, 26843545, 160954884, -2>>

\* 0.2857142874366239 (3fd24924 94229359)
Lg3 == <<1, 19173961, 69374809, -2>>

\* 0.22222198432149784 (3fcc71c5 1d8e78af)
Lg4 == <<1, 29826129, 227440815, -3>>

\* 0.1818357216161805 (3fc74664 96cb03de)
Lg5 == <<1, 24405577, 113968094, -3>>

\* 0.15313837699209373 (3fc39a09 d078c69f)
Lg6 == <<1, 20553885, 7915167, -3>>

\* 0.14798198605116586 (3fc2f112 df3e5244)
Lg7 == <<1, 19861805, 255742532, -3>>

\* 0.33333333333333333
OneThird == <<1, 22369621, 89478485, -2>>

OneHalf == <<1, 16777216, 0, -1>>

One == <<1, 16777216, 0, 0>>

Two == <<1, 16777216, 0, 1>>

\* t2 + t1
LogR(z, w) ==
  Add(Mul(z, Add(Lg1, Mul(w, Add(Lg3, Mul(w, Add(Lg5, Mul(w, Lg7))))))),
      Mul(w, Add(Lg2, Mul(w, Add(Lg4, Mul(w, Lg6))))))

\* |f| < 2^-20
LogNearOne(f, k, dk) ==
  IF IsZero(f)
    THEN (IF k = 0 THEN Zero ELSE Add(Mul(dk, ln2_hi), Mul(dk, ln2_lo)))
  ELSE IF k = 0 THEN Sub(f, Mul(Mul(f, f), Sub(OneHalf, Mul(OneThird, f))))
  ELSE Sub(Mul(dk, ln2_hi),
           Sub(Sub(Mul(Mul(f, f), Sub(OneHalf, Mul(OneThird, f))),
                   Mul(dk, ln2_lo)),
               f))

\* the branch i > 0, with hfsq = 0.5 * f * f
LogWithSquare(f, s, R, hfsq, k, dk) ==
  IF k = 0 THEN Sub(f, Sub(hfsq, Mul(s, Add(hfsq, R))))
  ELSE Sub(Mul(dk, ln2_hi),
           Sub(Sub(hfsq, Add(Mul(s, Add(hfsq, R)), Mul(dk, ln2_lo))), f))

\* the branch i <= 0
LogPlain(f, s, R, k, dk) ==
  IF k = 0 THEN Sub(f, Mul(s, Sub(f, R)))
  ELSE Sub(Mul(dk, ln2_hi), Sub(Sub(Mul(s, Sub(f, R)), Mul(dk, ln2_lo)), f))

LogSeries(f, s, R, hx, k, dk) ==
  IF 398458 <= hx /\ hx <= 440401
    THEN LogWithSquare(f, s, R, Mul(Mul(OneHalf, f), f), k, dk)
  ELSE LogPlain(f, s, R, k, dk)

LogSquares(f, s, z, hx, k, dk) == LogSeries(f, s, LogR(z, Mul(z, z)), hx, k, dk)

LogQuotient(f, s, hx, k, dk) == LogSquares(f, s, Mul(s, s), hx, k, dk)

\* f = x - 1 for x in [sqrt(2)/2, sqrt(2)), hx the 20 leading digits of the
\* fraction of the argument, k its binary order
LogReduced(f, hx, k) ==
  IF hx = 0 \/ hx >= 1048574 THEN LogNearOne(f, k, Num(k))
  ELSE LogQuotient(f, Div(f, Add(Two, f)), hx, k, Num(k))

\* i = 1 when the fraction is sqrt(2) - 1 or more: x is then halved
LogScaled(x, hx, i) ==
  LogReduced(Sub(<<1, x[1], x[2], -i>>, One), hx, x[3] + i)

LogNormal(x, hx) == LogScaled(x, hx, IF hx >= 434332 THEN 1 ELSE 0)

\* Math.log (a subnormal argument is scaled to a normal one)
MathLog(v) ==
  IF IsNaN(v) THEN NaN
  ELSE IF IsZero(v) THEN NegInf
  ELSE IF v[1] < 0 THEN NaN
  ELSE IF ~IsFinite(v) THEN v
  ELSE LogNormal(Normal(v), (Normal(v)[1] - 16777216) \div 16)

\* 0.4342944819032518 (3fdbcb7b 1526e50e)
ivln10 == <<1, 29145009, 86435086, -2>>

\* 0.30102999566361177 (3fd34413 509f6000)
log10_2hi == <<1, 20201781, 10444800, -2>>

\* 3.694239077158931e-13 (3d59fef3 11f12b36)
log10_2lo == <<1, 27258673, 32582454, -42>>

\* z + y * log10_2hi with z = y * log10_2lo + ivln10 * log(x)
Log10Sum(y, logx) ==
  Add(Add(Mul(y, log10_2lo), Mul(ivln10, logx)), Mul(y, log10_2hi))

\* x in [1, 2) for a binary order k >= 0 and in [1/2, 1) for k < 0
Log10Scaled(x, i) == Log10Sum(Num(x[3] + i), MathLog(<<1, x[1], x[2], -i>>))

Log10Normal(x) == Log10Scaled(x, IF x[3] < 0 THEN 1 ELSE 0)

\* Math.log10
MathLog10(v) ==
  IF IsNaN(v) THEN NaN
  ELSE IF IsZero(v) THEN NegInf
  ELSE IF v[1] < 0 THEN NaN
  ELSE IF ~IsFinite(v) THEN v
  ELSE IF v = One THEN Zero
  ELSE Log10Normal(Normal(v))

\* 709.782712893384 (40862e42 fefa39ef)
o_threshold == <<1, 23258159, 251279855, 9>>

\* -745.1332191019411 (c0874910 d52d3051)
u_threshold == <<-1, 24416525, 86847569, 9>>

\* 1.4426950408889634 (3ff71547 652b82fe)
invln2 == <<1, 24204406, 86737662, 0>>

\* 0.16666666666666602 (3fc55555 5555553e)
P1 == <<1, 22369621, 89478462, -3>>

\* -0.0027777777777015593 (bf66c16c 16bebd93)
P2 == <<-1, 23860929, 113163667, -9>>

\* 6.613756321437934e-05 (3f11566a af25de2c)
P3 == <<1, 18179754, 254139948, -14>>

\* -1.6533902205465252e-06 (bebbbd41 c5d26bf1)
P4 == <<-1, 29086748, 97676273, -20>>

\* 4.1381367970572385e-08 (3e663769 72bea4d0)
P5 == <<1, 23295639, 46048464, -25>>

\* 2^-1000 (01700000 00000000)
twom1000 == <<1, 16777216, 0, -1000>>

\* 2.718281828459045 (4005bf0a 8b145769)
EulerE == <<1, 22802600, 185882473, 1>>

\* y * 2^k
ExpScaled(y, k) ==
  IF k >= -1021
    THEN (IF k = 1024 THEN Mul(Mul(y, Two), Scaled(One, 1023))
          ELSE Mul(y, Scaled(One, k)))
  ELSE Mul(Mul(y, Scaled(One, k + 1000)), twom1000)

\* c = x - t*(P1 + t*(P2 + t*(P3 + t*(P4 + t*P5)))) with t = x * x
ExpC(x, t) ==
  Sub(x, Mul(t, Add(P1, Mul(t, Add(P2, Mul(t, Add(P3, Mul(t, Add(P4,
                                                           Mul(t, P5))))))))))

ExpSeries(x, c, hi, lo, k) ==
  IF k = 0 THEN Sub(One, Sub(Div(Mul(x, c), Sub(c, Two)), x))
  ELSE ExpScaled(Sub(One, Sub(Sub(lo, Div(Mul(x, c), Sub(Two, c))), hi)), k)

\* x = hi - lo is in the primary range
ExpPrimary(x, hi, lo, k) == ExpSeries(x, ExpC(x, Mul(x, x)), hi, lo, k)

ExpReduced(hi, lo, k) == ExpPrimary(Sub(hi, lo), hi, lo, k)

\* hi = v - k * ln2_hi, lo = k * ln2_lo
ExpByMultiple(v, k) ==
  ExpReduced(Sub(v, Mul(Num(k), ln2_hi)), Mul(Num(k), ln2_lo), k)

\* Math.exp; the bounds on |v| are 0.5 ln2 (high word above 3fd62e42),
\* 1.5 ln2 (high word below 3ff0a2b2) and 2^-28
MathExp(v) ==
  IF IsNaN(v) THEN NaN
  ELSE IF ~IsFinite(v) THEN (IF v[1] > 0 THEN v ELSE Zero)
  ELSE IF Gt(v, o_threshold) THEN PosInf
  ELSE IF Lt(v, u_threshold) THEN Zero
  ELSE IF Gt(MathAbs(v), <<1, 23258159, 268435455, -2>>)
    THEN (IF Lt(MathAbs(v), <<1, 17443616, 0, 0>>)
            THEN (IF v = One THEN EulerE
                  ELSE IF v[1] < 0
                    THEN ExpReduced(Sub(v, Neg(ln2_hi)), Neg(ln2_lo), -1)
                  ELSE ExpReduced(Sub(v, ln2_hi), ln2_lo, 1))
          ELSE ExpByMultiple(v, Trunc(Add(Mul(invln2, v),
                                          IF v[1] < 0 THEN Neg(OneHalf)
                                          ELSE OneHalf))))
  ELSE IF Lt(MathAbs(v), <<1, 16777216, 0, -28>>) THEN Add(One, v)
  ELSE ExpPrimary(v, Zero, Zero, 0)

(***************************************************************************)
(* JavaScript arrays                                                       *)
(***************************************************************************)
\* an array given by its elements, as a sequence
Array(f) == f \o <<>>

\* new Array(n): n holes, each read as undefined
NewArray(n) == Array([k \in 1..n |-> NaN])

\* a[i] = v: a negative index sets a property and leaves the elements alone,
\* an index past the end extends the array with holes
Store(a, i, v) ==
  IF i < 0 THEN a
  ELSE IF i < Len(a) THEN SubSeq(a, 1, i) \o <<v>> \o SubSeq(a, i + 2, Len(a))
  ELSE a \o NewArray(i - Len(a)) \o <<v>>

(***************************************************************************)
(* utils/numerical.utils.ts                                                *)
(***************************************************************************)
RECURSIVE trapezoidalLoop(_, _, _, _)
trapezoidalLoop(x, y, i, integral) ==
  IF i >= Len(x) THEN integral
  ELSE trapezoidalLoop(x, y, i + 1,
         Store(integral, i,
               Add(At(integral, i - 1),
                   Mul(Div(Add(At(y, i), At(y, i - 1)), Num(2)),
                       Sub(At(x, i), At(x, i - 1))))))

trapezoidalIntegrate(x, y) == trapezoidalLoop(x, y, 1, Store(<<>>, 0, Zero))

RECURSIVE logDerivLoop(_, _, _, _)
logDerivLoop(x, y, i, derivative) ==
  IF i >= Len(x) - 1 THEN derivative
  ELSE logDerivLoop(x, y, i + 1,
         Store(derivative, i,
               Div(Sub(At(y, i + 1), At(y, i - 1)),
                   MathLog(Div(At(x, i + 1), At(x, i - 1))))))

\* the forward difference at index 0, the central ones, the backward
\* difference at index n - 1
logarithmicDerivative(x, y) ==
  Store(logDerivLoop(x, y, 1,
          Store(NewArray(Len(x)), 0,
                Div(Sub(At(y, 1), At(y, 0)),
                    MathLog(Div(At(x, 1), At(x, 0)))))),
        Len(x) - 1,
        Div(Sub(At(y, Len(x) - 1), At(y, Len(x) - 2)),
            MathLog(Div(At(x, Len(x) - 1), At(x, Len(x) - 2)))))

\* sum after the passes j = start..end of the inner loop, from sum = 0
RECURSIVE windowSum(_, _, _)
windowSum(data, start, end) ==
  IF start > end THEN Zero
  ELSE Add(windowSum(data, start, end - 1), At(data, end))

\* count after the passes j = start..end: one per pass, none when start > end
windowCount(start, end) == IF start > end THEN 0 ELSE end - start + 1

movingAverage(data, windowSize) ==
  LET n          == Len(data)
      halfWindow == windowSize \div 2
  IN  Array([k \in 1..n |->
         LET i     == k - 1
             start == IF i - halfWindow > 0 THEN i - halfWindow ELSE 0
             end   == IF i + halfWindow < n - 1 THEN i + halfWindow ELSE n - 1
         IN  Div(windowSum(data, start, end), Num(windowCount(start, end)))])

\* milliseconds per day: 1000 * 60 * 60 * 24
MsPerDay == 1000 * 60 * 60 * 24

\* dates are their getTime() values, integer milliseconds
datesToDays(dates) ==
  IF Len(dates) = 0 THEN <<>>
  ELSE Array([k \in 1..Len(dates) |-> Norm(dates[k] - dates[1], MsPerDay)])

(***************************************************************************)
(* services/blasingame-calculation.service.ts                              *)
(***************************************************************************)
\* an optional argument: Undefined, or Some(v)
Undefined == <<>>

Some(v) == <<v>>

\* materialBalanceLoop without the carry-forward: a zero rate always gives 0.001
RECURSIVE materialBalanceLoop_m(_, _, _, _)
materialBalanceLoop_m(rates, cumulative, i, te) ==
  IF i >= Len(rates) THEN te
  ELSE materialBalanceLoop_m(rates, cumulative, i + 1,
         Store(te, i,
           IF Gt(At(rates, i), Zero)
             THEN Div(At(cumulative, i), At(rates, i))
             ELSE Norm(1, 1000)))

RECURSIVE materialBalanceLoop(_, _, _, _)
materialBalanceLoop(rates, cumulative, i, te) ==
  IF i >= Len(rates) THEN te
  ELSE materialBalanceLoop(rates, cumulative, i + 1,
         Store(te, i,
           IF Gt(At(rates, i), Zero)
             THEN Div(At(cumulative, i), At(rates, i))
             ELSE IF i > 0 THEN At(te, i - 1) ELSE Norm(1, 1000)))

calculateMaterialBalanceTime(rates, cumulative) ==
  materialBalanceLoop(rates, cumulative, 0, NewArray(Len(rates)))

\* dp > 0 ? dp : 100
positiveOr100(dp) == IF Gt(dp, Zero) THEN dp ELSE Num(100)

pressureDrop(initialPressure, p) == positiveOr100(Sub(initialPressure, p))

\* new Array(n).fill(v)
Filled(n, v) == Array([k \in 1..n |-> v])

\* calculatePressureDrops without the length test
calculatePressureDrops_m(pressures, initialPressure, dataLength) ==
  IF pressures # Undefined
    THEN Array([k \in 1..Len(pressures[1]) |->
                  pressureDrop(initialPressure, pressures[1][k])])
    ELSE Filled(dataLength, Mul(initialPressure, Norm(35, 100)))

calculatePressureDrops(pressures, initialPressure, dataLength) ==
  IF pressures # Undefined /\ Len(pressures[1]) = dataLength
    THEN Array([k \in 1..Len(pressures[1]) |->
                  pressureDrop(initialPressure, pressures[1][k])])
    ELSE Filled(dataLength, Mul(initialPressure, Norm(35, 100)))

\* calculateNormalizedRate reading the pressure drop of the previous point
calculateNormalizedRate_m(rates, pressureDrops) ==
  Array([k \in 1..Len(rates) |->
           Div(rates[k], At(pressureDrops, IF k > 1 THEN k - 2 ELSE 0))])

calculateNormalizedRate(rates, pressureDrops) ==
  Array([k \in 1..Len(rates) |-> Div(rates[k], At(pressureDrops, k - 1))])

\* integral.map((intVal, i) => te > 0 ? intVal / te : 0)
integralOverTime(materialBalanceTime, integral) ==
  Array([k \in 1..Len(integral) |->
           IF Gt(At(materialBalanceTime, k - 1), Zero)
             THEN Div(integral[k], At(materialBalanceTime, k - 1))
             ELSE Zero])

\* the map dividing by the time whatever its sign
integralOverTime_m(materialBalanceTime, integral) ==
  Array([k \in 1..Len(integral) |->
           Div(integral[k], At(materialBalanceTime, k - 1))])

\* calculateRateIntegral dividing by the time whatever its sign
calculateRateIntegral_m(materialBalanceTime, qDd) ==
  integralOverTime_m(materialBalanceTime,
                     trapezoidalIntegrate(materialBalanceTime, qDd))

calculateRateIntegral(materialBalanceTime, qDd) ==
  integralOverTime(materialBalanceTime,
                   trapezoidalIntegrate(materialBalanceTime, qDd))

\* the logarithmic derivative of qDdi smoothed over five points
calculateRateIntegralDerivative(materialBalanceTime, qDdi) ==
  logarithmicDerivative(materialBalanceTime, movingAverage(qDdi, 5))

\* validPoint without the test of the derivative's sign
validPoint_m(data, i) ==
  /\ IsFinite(At(data.materialBalanceTime, i))
  /\ IsFinite(At(data.qDd, i))
  /\ IsFinite(At(data.qDdi, i))
  /\ IsFinite(At(data.qDdid, i))
  /\ Gt(At(data.materialBalanceTime, i), Zero)
  /\ Gt(At(data.qDd, i), Zero)
  /\ Gt(At(data.qDdi, i), Zero)

\* validPoint without the test of the normalized rate's sign
validPoint_q(data, i) ==
  /\ IsFinite(At(data.materialBalanceTime, i))
  /\ IsFinite(At(data.qDd, i))
  /\ IsFinite(At(data.qDdi, i))
  /\ IsFinite(At(data.qDdid, i))
  /\ Gt(At(data.materialBalanceTime, i), Zero)
  /\ Gt(At(data.qDdi, i), Zero)
  /\ Gt(At(data.qDdid, i), Zero)

\* the test of cleanData on index i
validPoint(data, i) ==
  /\ IsFinite(At(data.materialBalanceTime, i))
  /\ IsFinite(At(data.qDd, i))
  /\ IsFinite(At(data.qDdi, i))
  /\ IsFinite(At(data.qDdid, i))
  /\ Gt(At(data.materialBalanceTime, i), Zero)
  /\ Gt(At(data.qDd, i), Zero)
  /\ Gt(At(data.qDdi, i), Zero)
  /\ Gt(At(data.qDdid, i), Zero)

\* the indices pushed to valid, in loop order
RECURSIVE validIndices(_, _)
validIndices(data, i) ==
  IF i >= Len(data.materialBalanceTime) THEN <<>>
  ELSE (IF validPoint(data, i) THEN <<i>> ELSE <<>>) \o validIndices(data, i + 1)

\* valid.map(i => a[i])
selected(a, valid) == Array([k \in 1..Len(valid) |-> At(a, valid[k])])

\* the four arrays at the valid indices
cleanedAt(data, valid) ==
  [materialBalanceTime |-> selected(data.materialBalanceTime, valid),
   qDd   |-> selected(data.qDd, valid),
   qDdi  |-> selected(data.qDdi, valid),
   qDdid |-> selected(data.qDdid, valid)]

\* cleanData taking the normalized rates by position, not by valid index
cleanData_m(data) ==
  [cleanedAt(data, validIndices(data, 0)) EXCEPT
     !.qDd = Array([k \in 1..Len(@) |-> At(data.qDd, k - 1)])]

cleanData(data) == cleanedAt(data, validIndices(data, 0))

\* the locals of calculate once qDdi is assigned, with the integral that
\* calculateRateIntegral holds
localsOfIntegral(days, materialBalanceTime, pressureDrops, qDd, qDdi) ==
  [days |-> days,
   materialBalanceTime |-> materialBalanceTime,
   pressureDrops |-> pressureDrops,
   qDd |-> qDd,
   integral |-> trapezoidalIntegrate(materialBalanceTime, qDd),
   qDdi |-> qDdi,
   qDdid |-> calculateRateIntegralDerivative(materialBalanceTime, qDdi)]

\* the locals of calculate once qDd is assigned
localsOfRate(days, materialBalanceTime, pressureDrops, qDd) ==
  localsOfIntegral(days, materialBalanceTime, pressureDrops, qDd,
                   calculateRateIntegral(materialBalanceTime, qDd))

\* the locals of calculate once pressureDrops is assigned
localsOfDrops(input, days, materialBalanceTime, pressureDrops) ==
  localsOfRate(days, materialBalanceTime, pressureDrops,
               calculateNormalizedRate(input.rates, pressureDrops))

\* the locals of calculate once days and materialBalanceTime are assigned
localsOfTimes(input, days, materialBalanceTime) ==
  localsOfDrops(input, days, materialBalanceTime,
                calculatePressureDrops(input.pressures, input.initialPressure,
                                       Len(days)))

\* the locals of calculate before cleaning
calculateLocals(input) ==
  localsOfTimes(input, datesToDays(input.dates),
                calculateMaterialBalanceTime(input.rates,
                                             input.cumulativeProduction))

\* the BlasingameOutput built from the cleaned arrays
outputOf(input, l, cleaned) ==
  [threw |-> FALSE,
   value |-> [teDimensionless     |-> <<>>,
              materialBalanceTime |-> cleaned.materialBalanceTime,
              qDd                 |-> cleaned.qDd,
              qDdi                |-> cleaned.qDdi,
              qDdid               |-> cleaned.qDdid,
              pressureDrops       |-> l.pressureDrops,
              times               |-> l.days,
              rates               |-> input.rates]]

\* the return statement of calculate, given its locals
calculateReturn(input, l) ==
  outputOf(input, l,
           cleanData([materialBalanceTime |-> l.materialBalanceTime,
                      qDd |-> l.qDd, qDdi |-> l.qDdi, qDdid |-> l.qDdid]))

\* calculate has no throw statement and no operation that raises
calculate(input) == calculateReturn(input, calculateLocals(input))

\* slope thresholds of the regime classification
classifyRegime(slope) ==
  IF Gt(slope, Norm(-3, 10)) THEN "infinite-acting"
  ELSE IF Ge(slope, Norm(-7, 10)) THEN "transition"
  ELSE IF Ge(slope, Norm(-13, 10)) THEN "boundary-dominated"
  ELSE "depletion"

RECURSIVE logLogSlopeLoop(_, _, _, _)
logLogSlopeLoop(logX, logY, i, slopes) ==
  IF i >= Len(logX) - 1 THEN slopes
  ELSE logLogSlopeLoop(logX, logY, i + 1,
         Store(slopes, i, Div(Sub(At(logY, i + 1), At(logY, i - 1)),
                              Sub(At(logX, i + 1), At(logX, i - 1)))))

\* the slopes from the logarithms: the forward difference at index 0, the
\* central ones, the backward difference at index n - 1
slopesOfLogs(logX, logY) ==
  Store(logLogSlopeLoop(logX, logY, 1,
          Store(NewArray(Len(logX)), 0,
                Div(Sub(At(logY, 1), At(logY, 0)),
                    Sub(At(logX, 1), At(logX, 0))))),
        Len(logX) - 1,
        Div(Sub(At(logY, Len(logX) - 1), At(logY, Len(logX) - 2)),
            Sub(At(logX, Len(logX) - 1), At(logX, Len(logX) - 2))))

calculateLogLogSlope(x, y) ==
  slopesOfLogs(Array([k \in 1..Len(x) |-> MathLog10(x[k])]),
               Array([k \in 1..Len(y) |-> MathLog10(y[k])]))

\* one pass of the loop of averageSlope on the pair <<sum, count>>
slopeAdded(sc, slope) ==
  IF IsFinite(slope) THEN <<Add(sc[1], slope), sc[2] + 1>> ELSE sc

\* the pair <<sum, count>> of the finite slopes at start..end after the
\* passes i = start..end of the loop, from sum = 0 and count = 0
RECURSIVE slopeSum(_, _, _)
slopeSum(slopes, start, end) ==
  IF start > end THEN <<Zero, 0>>
  ELSE slopeAdded(slopeSum(slopes, start, end - 1), At(slopes, end))

\* count > 0 ? sum / count : 0
meanOf(sc) == IF sc[2] > 0 THEN Div(sc[1], Num(sc[2])) ELSE Zero

\* averageSlope dividing by the number of indices, a non-finite slope adding 0
averageSlope_m(slopes, start, end) ==
  meanOf(<<slopeSum(slopes, start, end)[1],
           IF end >= start THEN end - start + 1 ELSE 0>>)

averageSlope(slopes, start, end) == meanOf(slopeSum(slopes, start, end))

\* Segment closed at the index after its last point
Segment_m(regime, startIndex, endIndex, slopes) ==
  [regime |-> regime, startIndex |-> startIndex, endIndex |-> endIndex + 1,
   diagnosticSlope |-> averageSlope(slopes, startIndex, endIndex + 1),
   confidence |-> "medium"]

Segment(regime, startIndex, endIndex, slopes) ==
  [regime |-> regime, startIndex |-> startIndex, endIndex |-> endIndex,
   diagnosticSlope |-> averageSlope(slopes, startIndex, endIndex),
   confidence |-> "medium"]

\* the loop of identifyFlowRegimes from index i, followed by the final push
RECURSIVE regimeStep(_, _, _, _, _, _)
RECURSIVE regimeLoop(_, _, _, _, _)
regimeLoop(slopes, i, currentRegime, startIndex, regimes) ==
  IF i >= Len(slopes)
    THEN Append(regimes,
                Segment(currentRegime, startIndex, Len(slopes) - 1, slopes))
    ELSE regimeStep(slopes, i, currentRegime, startIndex, regimes,
                    classifyRegime(At(slopes, i)))

\* the body of the loop at index i, newRegime being the regime of slopes[i]
regimeStep(slopes, i, currentRegime, startIndex, regimes, newRegime) ==
  IF newRegime # currentRegime
    THEN regimeLoop(slopes, i + 1, newRegime, i,
           Append(regimes, Segment(currentRegime, startIndex, i - 1, slopes)))
    ELSE regimeLoop(slopes, i + 1, currentRegime, startIndex, regimes)

\* the classification loop started at index 0
regimesOfSlopes_m(slopes) == regimeLoop(slopes, 0, "infinite-acting", 0, <<>>)

\* identifyFlowRegimes once slopes is assigned: currentRegime is
\* 'infinite-acting', startIndex is 0 and the loop starts at index 1
regimesOfSlopes(slopes) == regimeLoop(slopes, 1, "infinite-acting", 0, <<>>)

identifyFlowRegimes(materialBalanceTime, qDdid) ==
  regimesOfSlopes(calculateLogLogSlope(materialBalanceTime, qDdid))

(***************************************************************************)
(* services/type-curve-matching.service.ts                                 *)
(***************************************************************************)
\* materialBalanceTime.map(t => conversionFactor * kh * t / drainageArea),
\* scale being conversionFactor * kh
scaledTimes(materalBalanceTime, scale, drainageArea) ==
  Array([k \in 1..Len(materalBalanceTime) |->
           Div(Mul(scale, materalBalanceTime[k]), drainageArea)])

calculateDimensionalTime(materalBalanceTime, kh, drainageArea) ==
  scaledTimes(materalBalanceTime, Mul(Norm(2637, 10000000), kh),
              drainageArea)

\* 1 / (Math.sqrt(time) + skinEffect * 0.1)
baseResponse(time, skinEffect) ==
  Div(Num(1), Add(MathSqrt(time), Mul(skinEffect, Norm(1, 10))))

\* tD.map(...) without the floor of 0.01
ratesOfSkinEffect_m(tD, skinEffect) ==
  Array([k \in 1..Len(tD) |->
           IF Le(tD[k], Zero) THEN Zero ELSE baseResponse(tD[k], skinEffect)])

\* tD.map(time => time <= 0 ? 0 : Math.max(baseResponse, 0.01))
ratesOfSkinEffect(tD, skinEffect) ==
  Array([k \in 1..Len(tD) |->
           IF Le(tD[k], Zero) THEN Zero
           ELSE MathMax(baseResponse(tD[k], skinEffect), Norm(1, 100))])

\* calculateTheoreticalNormalizedRate without the floor of 0.01
calculateTheoreticalNormalizedRate_m(tD, skinFactor, dataPoints) ==
  ratesOfSkinEffect_m(tD, MathExp(MathMin(skinFactor, Num(5))))

calculateTheoreticalNormalizedRate(tD, skinFactor, dataPoints) ==
  ratesOfSkinEffect(tD, MathExp(MathMin(skinFactor, Num(5))))

\* new Array(n).fill(0)
ZeroArray(n) == Array([k \in 1..n |-> Zero])

RECURSIVE theoreticalIntegralLoop(_, _, _, _)
theoreticalIntegralLoop(tD, qDd, i, integral) ==
  IF i >= Len(qDd) THEN integral
  ELSE theoreticalIntegralLoop(tD, qDd, i + 1,
         Store(integral, i,
               Add(At(integral, i - 1),
                   Mul(Div(Add(At(qDd, i), At(qDd, i - 1)), Num(2)),
                       Sub(At(tD, i), At(tD, i - 1))))))

calculateTheoreticalIntegral(tD, qDd) ==
  theoreticalIntegralLoop(tD, qDd, 1, ZeroArray(Len(qDd)))

\* derivative[i] = (qIntegral[i + 1] - qIntegral[i - 1]) / dt when dt > 0
derivativeWith(qIntegral, i, derivative, dt) ==
  IF Gt(dt, Zero)
    THEN Store(derivative, i,
               Div(Sub(At(qIntegral, i + 1), At(qIntegral, i - 1)), dt))
    ELSE derivative

RECURSIVE theoreticalDerivativeLoop(_, _, _, _)
theoreticalDerivativeLoop(tD, qIntegral, i, derivative) ==
  IF i >= Len(qIntegral) - 1 THEN derivative
  ELSE theoreticalDerivativeLoop(tD, qIntegral, i + 1,
         derivativeWith(qIntegral, i, derivative,
                        Sub(At(tD, i + 1), At(tD, i - 1))))

\* derivative[n - 1] = derivative[n - 2]
lastCopied(derivative) ==
  Store(derivative, Len(derivative) - 1, At(derivative, Len(derivative) - 2))

\* derivative[0] = derivative[1], then the last element, when n > 1
endpointsCopied(derivative) ==
  IF Len(derivative) > 1
    THEN lastCopied(Store(derivative, 0, At(derivative, 1)))
    ELSE derivative

\* calculateTheoreticalDerivative without the copy into the two endpoints
calculateTheoreticalDerivative_m(tD, qIntegral) ==
  theoreticalDerivativeLoop(tD, qIntegral, 1, ZeroArray(Len(qIntegral)))

calculateTheoreticalDerivative(tD, qIntegral) ==
  endpointsCopied(
    theoreticalDerivativeLoop(tD, qIntegral, 1, ZeroArray(Len(qIntegral))))

\* the curves once theoreticalQIntegral is assigned
curvesOfIntegral(dimensionalTime, theoreticalQNorm, theoreticalQIntegral) ==
  [threw |-> FALSE,
   value |-> [teDimensionless |-> dimensionalTime,
              qDd   |-> theoreticalQNorm,
              qDdi  |-> theoreticalQIntegral,
              qDdid |-> calculateTheoreticalDerivative(dimensionalTime,
                                                       theoreticalQIntegral)]]

\* the curves once theoreticalQNorm is assigned
curvesOfRate(dimensionalTime, theoreticalQNorm) ==
  curvesOfIntegral(dimensionalTime, theoreticalQNorm,
                   calculateTheoreticalIntegral(dimensionalTime,
                                                theoreticalQNorm))

\* the curves once dimensionalTime is assigned
curvesOfTime(blasingameData, matchParams, dimensionalTime) ==
  curvesOfRate(dimensionalTime,
               calculateTheoreticalNormalizedRate(
                 dimensionalTime, matchParams.skinFactor,
                 Len(blasingameData.materialBalanceTime)))

\* generateTheoreticalCurves has no throw statement and no operation that raises
generateTheoreticalCurves(blasingameData, matchParams) ==
  curvesOfTime(blasingameData, matchParams,
               calculateDimensionalTime(blasingameData.materialBalanceTime,
                                        matchParams.kh,
                                        matchParams.drainageArea))

\* validPair without the test pair.t > 0
validPair_m(pair) ==
  /\ IsFinite(pair.c) /\ IsFinite(pair.t)
  /\ Gt(pair.c, Zero)

\* the filter of calculateMatchQuality on one pair
validPair(pair) ==
  /\ IsFinite(pair.c) /\ IsFinite(pair.t)
  /\ Gt(pair.c, Zero) /\ Gt(pair.t, Zero)

\* calculated.map(...).filter(...)
validPairsOf(calculated, theoretical) ==
  SelectSeq(Array([k \in 1..Len(calculated) |->
                     [c |-> calculated[k], t |-> At(theoretical, k - 1)]]),
            validPair)

\* validPairs.reduce((sum, p) => sum + p.c, 0) over the first n pairs
RECURSIVE sumCalculated(_, _)
sumCalculated(validPairs, n) ==
  IF n = 0 THEN Zero ELSE Add(sumCalculated(validPairs, n - 1), validPairs[n].c)

\* the accumulators of the forEach after one more pair
accumulate(acc, residual, y) ==
  [ssRes       |-> Add(acc.ssRes, Mul(residual, residual)),
   ssTot       |-> Add(acc.ssTot, Mul(y, y)),
   sumAbsError |-> Add(acc.sumAbsError, MathAbs(residual))]

\* sumsOfSquares with the residual taken against the mean
RECURSIVE sumsOfSquares_m(_, _, _)
sumsOfSquares_m(validPairs, meanCalculated, n) ==
  IF n = 0 THEN [ssRes |-> Zero, ssTot |-> Zero, sumAbsError |-> Zero]
  ELSE CHOOSE sums \in
         {accumulate(acc, Sub(validPairs[n].t, meanCalculated), y) :
            acc \in {sumsOfSquares_m(validPairs, meanCalculated, n - 1)},
            y \in {Sub(validPairs[n].c, meanCalculated)}} : TRUE

\* ssRes, ssTot and sumAbsError after the first n pairs of the forEach
RECURSIVE sumsOfSquares(_, _, _)
sumsOfSquares(validPairs, meanCalculated, n) ==
  IF n = 0 THEN [ssRes |-> Zero, ssTot |-> Zero, sumAbsError |-> Zero]
  ELSE CHOOSE sums \in
         {accumulate(acc, Sub(validPairs[n].c, validPairs[n].t), y) :
            acc \in {sumsOfSquares(validPairs, meanCalculated, n - 1)},
            y \in {Sub(validPairs[n].c, meanCalculated)}} : TRUE

\* the locals of calculateMatchQuality after the forEach and line 170
localsOf(validPairs, meanCalculated, sums) ==
  [validPairs |-> validPairs, meanCalculated |-> meanCalculated,
   ssRes |-> sums.ssRes, ssTot |-> sums.ssTot,
   sumAbsError |-> sums.sumAbsError,
   rSquared |-> IF Gt(sums.ssTot, Zero)
                  THEN Sub(Num(1), Div(sums.ssRes, sums.ssTot))
                  ELSE Zero]

\* the locals of calculateMatchQuality once validPairs is non-empty
matchQualityLocals(calculated, theoretical) ==
  CHOOSE l \in
    {localsOf(validPairs, meanCalculated,
              sumsOfSquares(validPairs, meanCalculated, Len(validPairs))) :
       validPairs \in {validPairsOf(calculated, theoretical)},
       meanCalculated \in
         {Div(sumCalculated(validPairsOf(calculated, theoretical),
                            Len(validPairsOf(calculated, theoretical))),
              Num(Len(validPairsOf(calculated, theoretical))))}} : TRUE

\* the value returned from the locals l
matchQualityOf(l) ==
  [rSquared |-> MathMax(Zero, MathMin(Num(1), l.rSquared)),
   rmse     |-> MathSqrt(Div(l.ssRes, Num(Len(l.validPairs)))),
   mae      |-> Div(l.sumAbsError, Num(Len(l.validPairs)))]

calculateMatchQuality(calculated, theoretical) ==
  IF Len(calculated) = 0 \/ Len(theoretical) = 0
    THEN [rSquared |-> Zero, rmse |-> Zero, mae |-> Zero]
  ELSE IF Len(validPairsOf(calculated, theoretical)) = 0
    THEN [rSquared |-> Zero, rmse |-> Zero, mae |-> Zero]
  ELSE CHOOSE quality \in
         {matchQualityOf(l) :
            l \in {matchQualityLocals(calculated, theoretical)}} : TRUE

(***************************************************************************)
(* Callers: the services hold no fields; the state is the call in flight   *)
(***************************************************************************)
\* longest production series supplied to calculate
MaxLen == 4

RateVals == {Num(0), Num(100), Num(400)}

\* flowing pressures, cycled through from a starting offset
PressureCycle == <<Num(150), Num(0), Num(200), Num(300)>>

PressureSeries(n, s) ==
  Array([k \in 1..n |-> PressureCycle[((k - 1 + s) % 4) + 1]])

\* daily dates from the epoch
DailyDates(n) == Array([k \in 1..n |-> (k - 1) * MsPerDay])

\* cumulative production consistent with the rates: the running sum
RECURSIVE RunningSum(_, _)
RunningSum(rates, n) ==
  IF n = 0 THEN <<>>
  ELSE LET prev == RunningSum(rates, n - 1)
       IN  Append(prev, Add(IF n = 1 THEN Zero ELSE prev[n - 1], rates[n]))

\* a steady decline to 100, one step of 100 a day
DeclineSeries(n) == [k \in 1..n |-> Num(100 * (n + 1 - k))]

\* the rate series: every series over RateVals, and the declines
RateSeqs ==
  UNION {[1..n -> RateVals] : n \in 0..MaxLen}
  \cup {DeclineSeries(n) : n \in 1..MaxLen}

\* well-shaped inputs: all series of one length, pressure absent or measured
\* (at initial pressure 400 every measured pressure is below it)
ShapedInputsOf(r) ==
  {[dates |-> DailyDates(Len(r)), rates |-> r,
    cumulativeProduction |-> RunningSum(r, Len(r)),
    pressures |-> p, initialPressure |-> Num(200)] :
     p \in {Undefined, Some(PressureSeries(Len(r), 0))}}
  \cup
  {[dates |-> DailyDates(Len(r)), rates |-> r,
    cumulativeProduction |-> RunningSum(r, Len(r)),
    pressures |-> p, initialPressure |-> Num(400)] :
     p \in {Some(PressureSeries(Len(r), s)) : s \in {0, 1}}}

\* inputs whose series differ in length: a pressure series one too long,
\* and a date series one too long with a cumulative series one too short
MisshapedInputsOf(r) ==
  {[dates |-> DailyDates(Len(r)), rates |-> r,
    cumulativeProduction |-> RunningSum(r, Len(r)),
    pressures |-> Some(PressureSeries(Len(r) + 1, 0)),
    initialPressure |-> Num(200)],
   [dates |-> DailyDates(Len(r) + 1), rates |-> r,
    cumulativeProduction |-> SubSeq(RunningSum(r, Len(r)), 1, Len(r) - 1),
    pressures |-> Undefined, initialPressure |-> Num(200)]}

\* the inputs offered to calculate with the rate series r
CalculateInputs(r) == ShapedInputsOf(r) \cup MisshapedInputsOf(r)

NoValue == <<>>

\* a caller has invoked BlasingameCalculationService.calculate(input)
InitCalculate ==
  \E r \in RateSeqs : \E input \in CalculateInputs(r) :
    /\ pc = "called"
    /\ op = "calculate"
    /\ args = input
    /\ locals = NoValue
    /\ ret = NoValue
    /\ heap = NoValue /\ out = NoValue /\ log = NoValue

\* calculate runs to its return statement
Calculate ==
  /\ pc = "called"
  /\ op = "calculate"
  /\ pc' = "returned"
  /\ locals' = calculateLocals(args)
  /\ ret' = calculateReturn(args, locals')
  /\ UNCHANGED <<op, args, heap, out, log>>

NextCalculate == Calculate

SpecCalculate == InitCalculate /\ [][NextCalculate]_vars

(***************************************************************************)
(* identifyFlowRegimes                                                     *)
(***************************************************************************)
\* 10^e as a number, for an integer e
RECURSIVE Pow10Int(_)
Pow10Int(e) == IF e = 0 THEN 1 ELSE 10 * Pow10Int(e - 1)

Pow10(e) == IF e >= 0 THEN Num(Pow10Int(e)) ELSE Norm(1, Pow10Int(-e))

\* decimal exponents of the time grids: one decade apart, irregular with a
\* ten-decade central difference at index 1, and with repeated times
GridExponents ==
  {<<0, 1, 2, 3, 4, 5>>, <<-5, 0, 5, 6, 7, 8>>, <<0, 0, 1, 1, 2, 2>>}

TimeGrids(n) == {Array([k \in 1..n |-> Pow10(g[k])]) : g \in GridExponents}

\* derivative values: powers of ten and zero
DerivativeVals == {Pow10(6), Pow10(3), Pow10(-1), Zero}

\* linear flow, qDdid proportional to te^(-1/2): te = 10^(2k - c) and
\* qDdid = 10^(2 - k) for k = 0..n-1
LinearFlowSeries(n) ==
  {[materialBalanceTime |-> Array([k \in 1..n |-> Pow10(2 * (k - 1) - c)]),
    qDdid |-> Array([k \in 1..n |-> Pow10(3 - k)])] : c \in {0, 2}}

\* the series identifyFlowRegimes is called with
RegimeInputs(n) ==
  {[materialBalanceTime |-> x, qDdid |-> Array(y)] :
     x \in TimeGrids(n), y \in [1..n -> DerivativeVals]}
  \cup LinearFlowSeries(n)

\* a caller has invoked identifyFlowRegimes(materialBalanceTime, qDdid)
InitRegimes ==
  \E n \in 0..MaxLen : \E in \in RegimeInputs(n) :
    /\ pc = "called"
    /\ op = "identifyFlowRegimes"
    /\ args = in
    /\ locals = NoValue
    /\ ret = NoValue
    /\ heap = NoValue /\ out = NoValue /\ log = NoValue

\* identifyFlowRegimes runs to its return statement, slopes being its constant
\* of that name
IdentifyFlowRegimes ==
  /\ pc = "called"
  /\ op = "identifyFlowRegimes"
  /\ \E slopes \in {calculateLogLogSlope(args.materialBalanceTime, args.qDdid)} :
       /\ locals' = [slopes |-> slopes]
       /\ ret' = regimesOfSlopes(slopes)
  /\ pc' = "returned"
  /\ UNCHANGED <<op, args, heap, out, log>>

NextRegimes == IdentifyFlowRegimes

SpecRegimes == InitRegimes /\ [][NextRegimes]_vars

(***************************************************************************)
(* generateTheoreticalCurves                                               *)
(***************************************************************************)
\* material balance times; with kh = 900000 and drainageArea = 293 the
\* positive ones have tD near 0.16, 0.81 and 10000
CurveTimes == {Zero, Norm(16, 81), Num(1), Norm(1000000, 81)}

\* <<kh, drainageArea>>: valid, and each of them zero or negative
CurveScales ==
  {<<Num(900000), Num(293)>>, <<Zero, Num(293)>>, <<Num(-900000), Num(293)>>,
   <<Num(900000), Zero>>, <<Zero, Zero>>, <<Num(900000), Num(-293)>>}

\* skin factors: every one with series of at most one point, 0 with all series
CurveSkins(n) == IF n <= 1 THEN {Num(-1), Zero, Num(5), Num(6)} ELSE {Zero}

\* a caller has invoked generateTheoreticalCurves(blasingameData, matchParams)
InitCurves ==
  \E n \in 0..MaxLen : \E te \in [1..n -> CurveTimes] :
    \E ka \in CurveScales : \E skin \in CurveSkins(n) :
      /\ pc = "called"
      /\ op = "generateTheoreticalCurves"
      /\ args = [blasingameData |-> [materialBalanceTime |-> Array(te)],
                 matchParams |-> [kh |-> ka[1], skinFactor |-> skin,
                                  drainageArea |-> ka[2]]]
      /\ locals = NoValue
      /\ ret = NoValue
      /\ heap = NoValue /\ out = NoValue /\ log = NoValue

\* generateTheoreticalCurves runs to its return statement
GenerateTheoreticalCurves ==
  /\ pc = "called"
  /\ op = "generateTheoreticalCurves"
  /\ pc' = "returned"
  /\ ret' = generateTheoreticalCurves(args.blasingameData, args.matchParams)
  /\ UNCHANGED <<op, args, locals, heap, out, log>>

NextCurves == GenerateTheoreticalCurves

SpecCurves == InitCurves /\ [][NextCurves]_vars

(***************************************************************************)
(* calculateMatchQuality                                                   *)
(***************************************************************************)
\* longest series supplied to calculateMatchQuality
MaxPairs == 3

\* calculated values: not a number, not positive, a value no double holds
\* exactly, a value one holds exactly, and one whose square overflows
CalculatedVals == {NaN, Zero, Norm(1, 10), Num(1), Huge}

TheoreticalVals == {Zero, Num(2)}

\* a caller has invoked calculateMatchQuality(calculated, theoretical);
\* theoretical is calculated itself (a perfect match) or another series,
\* as long as calculated or one shorter
InitMatch ==
  \E n \in 0..MaxPairs : \E c \in [1..n -> CalculatedVals] :
    \E m \in {n, n - 1} \cap (0..MaxPairs) :
      \E t \in [1..m -> TheoreticalVals] \cup {c} :
        /\ pc = "called"
        /\ op = "calculateMatchQuality"
        /\ args = [calculated |-> Array(c), theoretical |-> Array(t)]
        /\ locals = NoValue
        /\ ret = NoValue
        /\ heap = NoValue /\ out = NoValue /\ log = NoValue

\* the locals calculateMatchQuality has assigned when it returns: none on
\* an empty input, validPairs alone when no pair is valid
localsAtReturn(calculated, theoretical) ==
  IF Len(calculated) = 0 \/ Len(theoretical) = 0 THEN NoValue
  ELSE IF Len(validPairsOf(calculated, theoretical)) = 0
    THEN [validPairs |-> <<>>]
  ELSE matchQualityLocals(calculated, theoretical)

\* calculateMatchQuality runs to its return statement
CalculateMatchQuality ==
  /\ pc = "called"
  /\ op = "calculateMatchQuality"
  /\ pc' = "returned"
  /\ locals' = localsAtReturn(args.calculated, args.theoretical)
  /\ ret' = calculateMatchQuality(args.calculated, args.theoretical)
  /\ UNCHANGED <<op, args, heap, out, log>>

NextMatch == CalculateMatchQuality

SpecMatch == InitMatch /\ [][NextMatch]_vars

(***************************************************************************)
(* The whole engine: any one of the four public operations is called       *)
(***************************************************************************)
Init == InitCalculate \/ InitRegimes \/ InitCurves \/ InitMatch

Next ==
  \/ Calculate
  \/ IdentifyFlowRegimes
  \/ GenerateTheoreticalCurves
  \/ CalculateMatchQuality

Spec == Init /\ [][Next]_vars

(***************************************************************************)
(* A caller's session: a sequence of calls on arrays the caller owns.      *)
(* JavaScript arrays are objects passed and returned by reference; heap    *)
(* gives the contents of each array object the caller can reach.           *)
(***************************************************************************)
\* number of calls in a session
MaxCalls == 3

InputObjects == {"input.dates", "input.rates", "input.cumulativeProduction"}

OutputObjects ==
  {"output.teDimensionless", "output.materialBalanceTime", "output.qDd",
   "output.qDdi", "output.qDdid", "output.pressureDrops", "output.times"}

HeapObjects == InputObjects \cup OutputObjects \cup {"theoretical.qDd"}

\* the array object behind each field of the object calculate returns:
\* arrays allocated by the call, except rates, which is input.rates itself
calculateOutputObjects ==
  [teDimensionless     |-> "output.teDimensionless",
   materialBalanceTime |-> "output.materialBalanceTime",
   qDd                 |-> "output.qDd",
   qDdi                |-> "output.qDdi",
   qDdid               |-> "output.qDdid",
   pressureDrops       |-> "output.pressureDrops",
   times               |-> "output.times",
   rates               |-> "input.rates"]

\* the contents of the arrays of the BlasingameOutput the caller holds
OutputHeld ==
  [f \in DOMAIN calculateOutputObjects |-> heap[calculateOutputObjects[f]]]

\* the arrays passed to calculate, to identifyFlowRegimes, to
\* generateTheoreticalCurves and to calculateMatchQuality, as the heap h has them
InputArrays(h) ==
  [dates |-> h["input.dates"], rates |-> h["input.rates"],
   cumulativeProduction |-> h["input.cumulativeProduction"]]

RegimeArrays(h) ==
  [materialBalanceTime |-> h["output.materialBalanceTime"],
   qDdid |-> h["output.qDdid"]]

CurveArrays(h) == [materialBalanceTime |-> h["output.materialBalanceTime"]]

MatchArrays(h) ==
  [calculated |-> h["output.qDd"], theoretical |-> h["theoretical.qDd"]]

\* the BlasingameInput the caller builds around its arrays
SessionInput ==
  [dates |-> heap["input.dates"], rates |-> heap["input.rates"],
   cumulativeProduction |-> heap["input.cumulativeProduction"],
   pressures |-> Undefined, initialPressure |-> Num(200)]

\* the caller's input arrays as calculate leaves them: it only reads them
calculateWrites(input) ==
  [dates |-> input.dates, rates |-> input.rates,
   cumulativeProduction |-> input.cumulativeProduction]

\* the rate series a session starts from, its cumulative production, and the
\* values a caller writes
SessionRates == <<Num(100), Num(100), Num(100), Num(100)>>

SessionCumulative == <<Num(100), Num(400), Num(900), Num(1600)>>

SessionRateVals == {Num(100), Num(400)}

\* the match parameters of a session
SessionParams ==
  {[kh |-> Num(900000), skinFactor |-> Zero, drainageArea |-> Num(293)]}

\* the caller holds its input series and has made no call
InitSession ==
  /\ pc = "idle"
  /\ op = "none"
  /\ args = NoValue
  /\ locals = NoValue
  /\ ret = NoValue
  /\ heap = [o \in HeapObjects |->
               IF o = "input.dates" THEN DailyDates(Len(SessionRates))
               ELSE IF o = "input.rates" THEN SessionRates
               ELSE IF o = "input.cumulativeProduction" THEN SessionCumulative
               ELSE <<>>]
  /\ out = [generation |-> 0, theoretical |-> FALSE]
  /\ log = <<>>

\* the caller calls calculate on its input and keeps the returned object
SessionCalculate ==
  /\ Len(log) < MaxCalls
  /\ pc' = "returned"
  /\ op' = "calculate"
  /\ args' = SessionInput
  /\ locals' = calculateLocals(args')
  /\ ret' = calculateReturn(args', locals')
  /\ heap' = [o \in HeapObjects |->
                IF o = "input.dates" THEN calculateWrites(args').dates
                ELSE IF o = "input.rates" THEN calculateWrites(args').rates
                ELSE IF o = "input.cumulativeProduction"
                  THEN calculateWrites(args').cumulativeProduction
                ELSE IF o = "output.teDimensionless"
                  THEN ret'.value.teDimensionless
                ELSE IF o = "output.materialBalanceTime"
                  THEN ret'.value.materialBalanceTime
                ELSE IF o = "output.qDd" THEN ret'.value.qDd
                ELSE IF o = "output.qDdi" THEN ret'.value.qDdi
                ELSE IF o = "output.qDdid" THEN ret'.value.qDdid
                ELSE IF o = "output.pressureDrops"
                  THEN ret'.value.pressureDrops
                ELSE IF o = "output.times" THEN ret'.value.times
                ELSE heap[o]]
  /\ out' = [out EXCEPT !.generation = Len(log) + 1]
  /\ log' = Append(log, [op |-> "calculate", args |-> args', ret |-> ret',
                         before |-> InputArrays(heap),
                         after  |-> InputArrays(heap')])

\* the caller calls identifyFlowRegimes on the output it holds
SessionIdentifyFlowRegimes ==
  /\ Len(log) < MaxCalls
  /\ out.generation > 0
  /\ pc' = "returned"
  /\ op' = "identifyFlowRegimes"
  /\ args' = RegimeArrays(heap)
  /\ locals' = [slopes |-> calculateLogLogSlope(args'.materialBalanceTime,
                                                args'.qDdid)]
  /\ ret' = identifyFlowRegimes(args'.materialBalanceTime, args'.qDdid)
  /\ log' = Append(log, [op |-> "identifyFlowRegimes", args |-> args',
                         ret |-> ret', before |-> args',
                         after |-> RegimeArrays(heap)])
  /\ UNCHANGED <<heap, out>>

\* the caller calls generateTheoreticalCurves on the output it holds and
\* keeps the theoretical qDd
SessionGenerateTheoreticalCurves ==
  /\ Len(log) < MaxCalls
  /\ out.generation > 0
  /\ \E params \in SessionParams :
       /\ pc' = "returned"
       /\ op' = "generateTheoreticalCurves"
       /\ args' = [blasingameData |-> CurveArrays(heap), matchParams |-> params]
       /\ ret' = generateTheoreticalCurves(args'.blasingameData, params)
       /\ heap' = [heap EXCEPT !["theoretical.qDd"] = ret'.value.qDd]
       /\ out' = [out EXCEPT !.theoretical = TRUE]
       /\ log' = Append(log, [op |-> "generateTheoreticalCurves",
                              args |-> args', ret |-> ret',
                              before |-> args'.blasingameData,
                              after |-> CurveArrays(heap')])
       /\ UNCHANGED locals

\* the caller calls calculateMatchQuality on the calculated and the
\* theoretical qDd it holds
SessionCalculateMatchQuality ==
  /\ Len(log) < MaxCalls
  /\ out.generation > 0
  /\ out.theoretical
  /\ pc' = "returned"
  /\ op' = "calculateMatchQuality"
  /\ args' = MatchArrays(heap)
  /\ locals' = localsAtReturn(args'.calculated, args'.theoretical)
  /\ ret' = calculateMatchQuality(args'.calculated, args'.theoretical)
  /\ log' = Append(log, [op |-> "calculateMatchQuality", args |-> args',
                         ret |-> ret', before |-> args',
                         after |-> MatchArrays(heap)])
  /\ UNCHANGED <<heap, out>>

\* between calls the caller writes a value into the first or the last
\* element of its rates array
ModifyInputRates ==
  /\ \E k \in {1, Len(heap["input.rates"])} : \E v \in SessionRateVals :
       /\ heap["input.rates"][k] # v
       /\ heap' = [heap EXCEPT !["input.rates"][k] = v]
  /\ UNCHANGED <<pc, op, args, locals, ret, out, log>>

NextSession ==
  \/ SessionCalculate
  \/ SessionIdentifyFlowRegimes
  \/ SessionGenerateTheoreticalCurves
  \/ SessionCalculateMatchQuality
  \/ ModifyInputRates

SpecSession == InitSession /\ [][NextSession]_vars

(***************************************************************************)
(* services/import-persistence.service.ts: the last imported dataset in    *)
(* localStorage, and the dataset services/data-import.service.ts builds.   *)
(* Here op is the last call made, args the dataset of the last save, ret   *)
(* the result of the last load, heap the browser's localStorage and locals *)
(* the outcome of the last save and the call made before the last one.     *)
(***************************************************************************)
\* most data rows in an imported file
MaxRows == 3

STORAGE_KEY == "rta_last_import"

CURRENT_VERSION == 1

\* the JavaScript value null
Null == <<"null">>

\* JSON.stringify of a number: NaN and the infinities are written as null,
\* -0 as 0, and every other number as a text that reads back as the number
JsonNumber(v) ==
  IF ~IsFinite(v) THEN <<"null">>
  ELSE IF IsZero(v) THEN <<"number", Zero>>
  ELSE <<"number", v>>

\* JSON.parse of the text of a number or of null
ParseNumber(text) == IF Len(text) = 1 THEN Null ELSE text[2]

JsonNumberArray(a) == Array([k \in 1..Len(a) |-> JsonNumber(a[k])])

ParseNumberArray(text) == Array([k \in 1..Len(text) |-> ParseNumber(text[k])])

JsonString(s) == <<"string", s>>

ParseString(text) == text[2]

\* a property whose value is undefined is left out of the text
Absent == <<>>

\* JSON.stringify of an optional string property
JsonOptionalString(o) == IF o = Undefined THEN Absent ELSE JsonString(o[1])

\* reading an optional string property of the parsed object
ParseOptionalString(text) ==
  IF text = Absent THEN Undefined ELSE Some(ParseString(text))

\* JSON.stringify of an optional number[] property
JsonOptionalNumberArray(o) ==
  IF o = Undefined THEN Absent ELSE <<"array", JsonNumberArray(o[1])>>

\* reading an optional number[] property of the parsed object
ParseOptionalNumberArray(text) ==
  IF text = Absent THEN Undefined ELSE Some(ParseNumberArray(text[2]))

\* Date.prototype.toISOString of a date given by its getTime() value: the
\* fields of YYYY-MM-DDTHH:mm:ss.sssZ, for the dates of January 1970
toISOString(time) ==
  [year |-> 1970, month |-> 1, day |-> (time \div MsPerDay) + 1,
   millisecondOfDay |-> time % MsPerDay]

\* new Date(s).getTime() for an ISO string s of January 1970
NewDate(s) == (s.day - 1) * MsPerDay + s.millisecondOfDay

\* buildDataset(rows, metadata, fileName): the clock is read twice, by
\* Date.now() for the well id and by new Date() for importedAt
buildDataset(rows, metadata, fileName, now, importedAt) ==
  LET wellId      == <<"import-", now>>
      apiNumber   == IF metadata.apiNumber = Undefined THEN ""
                     ELSE metadata.apiNumber[1]
      field       == IF metadata.field = Undefined THEN ""
                     ELSE metadata.field[1]
      dates       == Array([k \in 1..Len(rows) |-> rows[k].date])
      days        == datesToDays(dates)
      oilRates    == Array([k \in 1..Len(rows) |-> rows[k].oilRate])
      gasRates    == Array([k \in 1..Len(rows) |-> rows[k].gasRate])
      waterRates  == Array([k \in 1..Len(rows) |-> rows[k].waterRate])
      hasPressure == \E k \in 1..Len(rows) : rows[k].pressure # Undefined
      pressure    == IF hasPressure
                       THEN Some(Array([k \in 1..Len(rows) |->
                              IF rows[k].pressure = Undefined THEN NaN
                              ELSE rows[k].pressure[1]]))
                       ELSE Undefined
  IN  [well |-> [wellId |-> wellId, wellName |-> metadata.wellName,
                 apiNumber |-> apiNumber, field |-> field,
                 fluidType |-> metadata.fluidType,
                 completionType |-> metadata.completionType],
       productionData |->
         [wellId |-> wellId, dates |-> dates,
          oilRates |-> oilRates, gasRates |-> gasRates,
          waterRates |-> waterRates,
          cumulativeOil |-> trapezoidalIntegrate(days, oilRates),
          cumulativeGas |-> trapezoidalIntegrate(days, gasRates),
          cumulativeWater |-> trapezoidalIntegrate(days, waterRates),
          pressure |-> pressure],
       importedAt |-> importedAt,
       sourceFileName |-> fileName]

\* the payload object save builds from a dataset of at least one row
savePayload(dataset) ==
  LET well           == dataset.well
      productionData == dataset.productionData
      dates          == productionData.dates
  IN  [version |-> CURRENT_VERSION,
       importedAt |-> toISOString(dataset.importedAt),
       sourceFileName |-> dataset.sourceFileName,
       wellId |-> well.wellId,
       wellName |-> well.wellName,
       apiNumber |-> well.apiNumber,
       field |-> well.field,
       fluidType |-> well.fluidType,
       completionType |-> well.completionType,
       rowCount |-> Len(dates),
       dateRange |-> [start |-> toISOString(dates[1]),
                      end |-> toISOString(dates[Len(dates)])],
       productionData |->
         [wellId |-> productionData.wellId,
          dates |-> Array([k \in 1..Len(dates) |-> toISOString(dates[k])]),
          oilRates |-> productionData.oilRates,
          gasRates |-> productionData.gasRates,
          waterRates |-> productionData.waterRates,
          cumulativeOil |-> productionData.cumulativeOil,
          cumulativeGas |-> productionData.cumulativeGas,
          cumulativeWater |-> productionData.cumulativeWater,
          pressure |-> productionData.pressure]]

\* JSON.stringify(payload): the text stored under the key
JsonStringify(payload) ==
  [version |-> JsonNumber(Num(payload.version)),
   importedAt |-> JsonString(payload.importedAt),
   sourceFileName |-> JsonString(payload.sourceFileName),
   wellId |-> JsonString(payload.wellId),
   wellName |-> JsonString(payload.wellName),
   apiNumber |-> JsonString(payload.apiNumber),
   field |-> JsonString(payload.field),
   fluidType |-> JsonOptionalString(payload.fluidType),
   completionType |-> JsonOptionalString(payload.completionType),
   rowCount |-> JsonNumber(Num(payload.rowCount)),
   dateRange |-> [start |-> JsonString(payload.dateRange.start),
                  end |-> JsonString(payload.dateRange.end)],
   productionData |->
     [wellId |-> JsonString(payload.productionData.wellId),
      dates |-> Array([k \in 1..Len(payload.productionData.dates) |->
                         JsonString(payload.productionData.dates[k])]),
      oilRates |-> JsonNumberArray(payload.productionData.oilRates),
      gasRates |-> JsonNumberArray(payload.productionData.gasRates),
      waterRates |-> JsonNumberArray(payload.productionData.waterRates),
      cumulativeOil |-> JsonNumberArray(payload.productionData.cumulativeOil),
      cumulativeGas |-> JsonNumberArray(payload.productionData.cumulativeGas),
      cumulativeWater |->
        JsonNumberArray(payload.productionData.cumulativeWater),
      pressure |-> JsonOptionalNumberArray(payload.productionData.pressure)]]

\* JSON.parse(raw) as PersistedImport, for a text written by save
JsonParse(text) ==
  [version |-> ParseNumber(text.version),
   importedAt |-> ParseString(text.importedAt),
   sourceFileName |-> ParseString(text.sourceFileName),
   wellId |-> ParseString(text.wellId),
   wellName |-> ParseString(text.wellName),
   apiNumber |-> ParseOptionalString(text.apiNumber),
   field |-> ParseOptionalString(text.field),
   fluidType |-> ParseOptionalString(text.fluidType),
   completionType |-> ParseOptionalString(text.completionType),
   rowCount |-> ParseNumber(text.rowCount),
   dateRange |-> [start |-> ParseString(text.dateRange.start),
                  end |-> ParseString(text.dateRange.end)],
   productionData |->
     [wellId |-> ParseString(text.productionData.wellId),
      dates |-> Array([k \in 1..Len(text.productionData.dates) |->
                         ParseString(text.productionData.dates[k])]),
      oilRates |-> ParseNumberArray(text.productionData.oilRates),
      gasRates |-> ParseNumberArray(text.productionData.gasRates),
      waterRates |-> ParseNumberArray(text.productionData.waterRates),
      cumulativeOil |-> ParseNumberArray(text.productionData.cumulativeOil),
      cumulativeGas |-> ParseNumberArray(text.productionData.cumulativeGas),
      cumulativeWater |->
        ParseNumberArray(text.productionData.cumulativeWater),
      pressure |-> ParseOptionalNumberArray(text.productionData.pressure)]]

\* an item of localStorage: none, the empty text, a text that is not JSON,
\* the JSON text null, or the JSON text of an object
NoItem == [kind |-> "none", text |-> <<>>]

EmptyItem == [kind |-> "empty", text |-> <<>>]

CorruptItem == [kind |-> "corrupt", text |-> <<>>]

NullItem == [kind |-> "null", text |-> <<>>]

JsonItem(text) == [kind |-> "object", text |-> text]

\* a text written under the key by a later schema version
StaleItem == JsonItem([version |-> JsonNumber(Num(CURRENT_VERSION + 1))])

\* a text of the current version that holds nothing else
BareItem == JsonItem([version |-> JsonNumber(Num(CURRENT_VERSION))])

\* the dataset load builds from the parsed object
loadDataset(persisted) ==
  LET well == [wellId |-> persisted.wellId,
               wellName |-> persisted.wellName,
               apiNumber |-> IF persisted.apiNumber = Undefined THEN ""
                             ELSE persisted.apiNumber[1],
               field |-> IF persisted.field = Undefined THEN ""
                         ELSE persisted.field[1],
               fluidType |-> persisted.fluidType,
               completionType |-> persisted.completionType]
      dates == Array([k \in 1..Len(persisted.productionData.dates) |->
                        NewDate(persisted.productionData.dates[k])])
      productionData ==
        [wellId |-> persisted.productionData.wellId,
         dates |-> dates,
         oilRates |-> persisted.productionData.oilRates,
         gasRates |-> persisted.productionData.gasRates,
         waterRates |-> persisted.productionData.waterRates,
         cumulativeOil |-> persisted.productionData.cumulativeOil,
         cumulativeGas |-> persisted.productionData.cumulativeGas,
         cumulativeWater |-> persisted.productionData.cumulativeWater,
         pressure |-> persisted.productionData.pressure]
  IN  [well |-> well,
       productionData |-> productionData,
       importedAt |-> NewDate(persisted.importedAt),
       sourceFileName |-> persisted.sourceFileName]

\* the result of load: null, or a dataset
NullResult == [isNull |-> TRUE, value |-> NoValue]

\* a property read of null or undefined: the call ends with this error
TypeError == [raised |-> "TypeError"]

\* has(): getItem gives null only when there is no item
has(localStorage) == localStorage[STORAGE_KEY].kind # "none"

\* load(): the value returned, or the error raised, and the localStorage it
\* leaves
load(localStorage) ==
  LET raw     == localStorage[STORAGE_KEY]
      removed == [localStorage EXCEPT ![STORAGE_KEY] = NoItem]
  IN  IF raw.kind \in {"none", "empty"}
        THEN [value |-> NullResult, localStorage |-> localStorage]
      ELSE IF raw.kind = "corrupt"
        THEN [value |-> NullResult, localStorage |-> removed]
      ELSE IF raw.kind = "null"
        THEN [value |-> TypeError, localStorage |-> localStorage]
      ELSE IF ParseNumber(raw.text.version) # Num(CURRENT_VERSION)
        THEN [value |-> NullResult, localStorage |-> removed]
      ELSE IF "productionData" \notin DOMAIN raw.text
        THEN [value |-> TypeError, localStorage |-> localStorage]
      ELSE [value |-> [isNull |-> FALSE,
                       value |-> loadDataset(JsonParse(raw.text))],
            localStorage |-> localStorage]

\* rows of an import: one day apart, with and without a pressure value
ImportRows(n) ==
  {Array([k \in 1..n |->
      [date |-> (k - 1) * MsPerDay,
       oilRate |-> IF k = 2 THEN Zero ELSE Num(100),
       gasRate |-> Num(50),
       waterRate |-> Zero,
       pressure |-> p[k]]]) : p \in [1..n -> {Undefined, Some(Num(2500))}]}

\* metadata entered in the import dialog
ImportMetadata ==
  {[wellName |-> "Well A", apiNumber |-> Undefined, field |-> Some("Field B"),
    fluidType |-> f, completionType |-> Undefined] :
     f \in {Undefined, Some("oil")}}

\* the two readings of the clock in one call of buildDataset: the same
\* millisecond, or the next one at the second reading
ClockReadings ==
  {<<5 * MsPerDay + 1234, 5 * MsPerDay + 1234>>,
   <<5 * MsPerDay + 1234, 5 * MsPerDay + 1235>>}

\* the datasets the import dialog hands over: at least 2 valid rows
ImportedDatasets ==
  {buildDataset(rows, metadata, "production.csv", clock[1], clock[2]) :
     rows \in UNION {ImportRows(n) : n \in 2..MaxRows},
     metadata \in ImportMetadata,
     clock \in ClockReadings}

\* the page opens on whatever an earlier visit left under the key
InitPersistence ==
  \E item \in {NoItem, EmptyItem, CorruptItem, NullItem, StaleItem, BareItem} :
    /\ pc = "idle"
    /\ op = "none"
    /\ args = NoValue
    /\ locals = [stored |-> FALSE, previous |-> "none"]
    /\ ret = NoValue
    /\ heap = [k \in {STORAGE_KEY} |-> item]
    /\ out = NoValue
    /\ log = NoValue

\* save(dataset): setItem stores the text, or throws and is caught
Save ==
  \E dataset \in ImportedDatasets : \E stored \in BOOLEAN :
    /\ pc = "idle"
    /\ op' = "save"
    /\ args' = [dataset |-> dataset]
    /\ heap' = IF stored
                 THEN [heap EXCEPT ![STORAGE_KEY] =
                         JsonItem(JsonStringify(savePayload(dataset)))]
                 ELSE heap
    /\ locals' = [stored |-> stored, previous |-> op]
    /\ ret' = NoValue
    /\ UNCHANGED <<pc, out, log>>

\* load(), as the page does when it is opened again
Load ==
  /\ pc = "idle"
  /\ op' = "load"
  /\ ret' = load(heap).value
  /\ heap' = load(heap).localStorage
  /\ locals' = [stored |-> locals.stored, previous |-> op]
  /\ UNCHANGED <<pc, args, out, log>>

\* clear()
Clear ==
  /\ pc = "idle"
  /\ op' = "clear"
  /\ heap' = [heap EXCEPT ![STORAGE_KEY] = NoItem]
  /\ locals' = [stored |-> FALSE, previous |-> op]
  /\ ret' = NoValue
  /\ UNCHANGED <<pc, args, out, log>>

NextPersistence ==
  \/ Save
  \/ Load
  \/ Clear

SpecPersistence == InitPersistence /\ [][NextPersistence]_vars

(***************************************************************************)
(* services/data-import.service.ts: parseCSV. A file is its header, as the *)
(* columns buildColumnMap finds in it, and its data lines, as the values   *)
(* new Date, parseRate and parsePressure give for their cells.             *)
(***************************************************************************)
ChronologicalWarning ==
  "Dates were not in chronological order. Rows have been sorted automatically."

\* the messages of the errors; (dateStr) stands for the cell that is no date
NoDataRowError == "File must contain a header row and at least one data row."

NoDateColumnError ==
  "No date column found. Expected a column named \"date\", \"time\", or \"production_date\"."

NoRateColumnError ==
  "No rate column found. Expected at least one of: oil_rate_stbd, gas_rate_mscfd, water_rate_stbd."

CannotParseDate == "Cannot parse date: \"(dateStr)\""

TooFewRowsError == "At least 2 valid data rows are required."

\* rows.sort((a, b) => a.date.getTime() - b.date.getTime()), a stable sort
RECURSIVE sortByDate(_)
sortByDate(rows) ==
  IF Len(rows) <= 1 THEN rows
  ELSE LET rest == sortByDate(Tail(rows))
           p    == Cardinality({k \in 1..Len(rest) :
                                  rest[k].date < Head(rows).date})
       IN  SubSeq(rest, 1, p) \o <<Head(rows)>> \o SubSeq(rest, p + 1, Len(rest))

\* parseRate(cells, index): 0 when the column is missing from the header,
\* the cell is empty or parseFloat gives NaN
parseRate(present, cell) ==
  IF ~present \/ cell = Undefined THEN Zero ELSE cell[1]

\* parsePressure(cells, index)
parsePressure(present, cell) == IF present THEN cell ELSE Undefined

\* the warnings of one data line, in the order oil, gas, water; value is the
\* rate the message quotes
rateWarning(rowNum, message, rate) ==
  IF Lt(rate, Zero)
    THEN <<[row |-> rowNum, message |-> message, value |-> rate]>>
    ELSE <<>>

rateWarnings(rowNum, oilRate, gasRate, waterRate) ==
  rateWarning(rowNum, "Negative oil rate (value) clamped to 0.", oilRate)
  \o rateWarning(rowNum, "Negative gas rate (value) clamped to 0.", gasRate)
  \o rateWarning(rowNum, "Negative water rate (value) clamped to 0.", waterRate)

\* a rate after the clamp
clamped(rate) == IF Lt(rate, Zero) THEN Zero ELSE rate

\* the loop over the data lines from line i on; rowNum is i + 1
RECURSIVE parseRows(_, _, _)
parseRows(file, i, acc) ==
  IF i > Len(file.lines) THEN acc
  ELSE LET line      == file.lines[i]
           oilRate   == parseRate(file.header.oilRate, line.oilRate)
           gasRate   == parseRate(file.header.gasRate, line.gasRate)
           waterRate == parseRate(file.header.waterRate, line.waterRate)
       IN  IF line.date = Undefined
             THEN parseRows(file, i + 1,
                    [acc EXCEPT
                       !.errors = Append(@, [row |-> i + 1, column |-> "date",
                                             message |-> CannotParseDate]),
                       !.dateParseErrors = @ + 1])
             ELSE parseRows(file, i + 1,
                    [acc EXCEPT
                       !.warnings = @ \o rateWarnings(i + 1, oilRate, gasRate,
                                                      waterRate),
                       !.rows = Append(@,
                                  [date |-> line.date[1],
                                   oilRate |-> clamped(oilRate),
                                   gasRate |-> clamped(gasRate),
                                   waterRate |-> clamped(waterRate),
                                   pressure |-> parsePressure(file.header.pressure,
                                                              line.pressure)])])

\* parseCSV(text) for a text with a header line
parseCSV(file) ==
  LET invalid(errors, warnings, rows) ==
        [isValid |-> FALSE, errors |-> errors, warnings |-> warnings,
         rows |-> rows]
      hasRateColumn == \/ file.header.oilRate
                       \/ file.header.gasRate
                       \/ file.header.waterRate
      parsed == parseRows(file, 1, [errors |-> <<>>, warnings |-> <<>>,
                                    rows |-> <<>>, dateParseErrors |-> 0])
      sorted == sortByDate(parsed.rows)
      originalOrder == [k \in 1..Len(parsed.rows) |-> parsed.rows[k].date]
      isSorted == \A k \in 2..Len(sorted) : sorted[k].date >= sorted[k - 1].date
      unordered == \/ ~isSorted
                   \/ \E k \in 2..Len(sorted) : sorted[k].date < originalOrder[k]
      pressureCount == Cardinality({k \in 1..Len(sorted) :
                                      sorted[k].pressure # Undefined})
      sparse == file.header.pressure /\ 2 * pressureCount < Len(sorted)
      warnings ==
        parsed.warnings
          \o (IF unordered
                THEN <<[row |-> 0, message |-> ChronologicalWarning]>>
                ELSE <<>>)
          \o (IF sparse
                THEN <<[row |-> 0,
                        message |-> "Pressure column present but (missing) of (rows) rows have no pressure value.",
                        missing |-> Len(sorted) - pressureCount,
                        rows |-> Len(sorted)]>>
                ELSE <<>>)
  IN  IF Len(file.lines) < 1
        THEN invalid(<<[row |-> 0, column |-> "file",
                        message |-> NoDataRowError]>>, <<>>, <<>>)
      ELSE IF ~file.header.date \/ ~hasRateColumn
        THEN invalid((IF file.header.date THEN <<>>
                      ELSE <<[row |-> 0, column |-> "date",
                              message |-> NoDateColumnError]>>)
                     \o (IF hasRateColumn THEN <<>>
                         ELSE <<[row |-> 0, column |-> "rate",
                                 message |-> NoRateColumnError]>>),
                     <<>>, <<>>)
      ELSE IF parsed.dateParseErrors > 0 /\ Len(parsed.rows) = 0
        THEN invalid(parsed.errors, parsed.warnings, parsed.rows)
      ELSE IF Len(parsed.rows) < 2
        THEN invalid(Append(parsed.errors,
                            [row |-> 0, column |-> "file",
                             message |-> TooFewRowsError]),
                     parsed.warnings, parsed.rows)
      ELSE [isValid |-> Len(parsed.errors) = 0, errors |-> parsed.errors,
            warnings |-> warnings, rows |-> sorted]

\* the columns buildColumnMap finds in a header line
CsvHeader(date, oilRate, gasRate, waterRate, pressure) ==
  [date |-> date, oilRate |-> oilRate, gasRate |-> gasRate,
   waterRate |-> waterRate, pressure |-> pressure]

CsvHeaders ==
  {CsvHeader(TRUE, TRUE, TRUE, TRUE, TRUE),
   CsvHeader(TRUE, TRUE, FALSE, FALSE, FALSE),
   CsvHeader(TRUE, FALSE, TRUE, FALSE, FALSE),
   CsvHeader(TRUE, FALSE, FALSE, TRUE, TRUE),
   CsvHeader(FALSE, TRUE, FALSE, FALSE, FALSE),
   CsvHeader(TRUE, FALSE, FALSE, FALSE, FALSE)}

\* the date cell of a data line: one of three days, or not a date
CsvDates == {Undefined, Some(0), Some(MsPerDay), Some(2 * MsPerDay)}

\* the files parseCSV is given: any order of dates; a negative oil rate on
\* the third line, a negative gas and water rate on the second, an empty
\* water cell on the first; a pressure value on every other line.  The
\* cells of a column the header lacks are not read.
CsvFiles ==
  {[header |-> h,
    lines |-> Array([k \in 1..Len(Array(d)) |->
                [date |-> d[k],
                 oilRate |-> IF k = 3 THEN Some(Num(-5)) ELSE Some(Num(100)),
                 gasRate |-> IF k = 2 THEN Some(Num(-3)) ELSE Some(Num(50)),
                 waterRate |-> IF k = 1 THEN Undefined
                               ELSE IF k = 2 THEN Some(Num(-1))
                               ELSE Some(Num(7)),
                 pressure |-> IF k % 2 = 1 THEN Some(Num(2500))
                              ELSE Undefined]])] :
     h \in CsvHeaders, d \in UNION {[1..n -> CsvDates] : n \in 0..MaxRows}}

\* the import dialog has read a file and calls parseCSV(text)
InitParse ==
  \E file \in CsvFiles :
    /\ pc = "called"
    /\ op = "parseCSV"
    /\ args = [file |-> file]
    /\ locals = NoValue
    /\ ret = NoValue
    /\ heap = NoValue /\ out = NoValue /\ log = NoValue

\* parseCSV runs to one of its return statements
ParseCSV ==
  /\ pc = "called"
  /\ op = "parseCSV"
  /\ pc' = "returned"
  /\ ret' = parseCSV(args.file)
  /\ UNCHANGED <<op, args, locals, heap, out, log>>

NextParse == ParseCSV

SpecParse == InitParse /\ [][NextParse]_vars

(***************************************************************************)
(* AppStateService (services/import-persistence.service.ts, second class). *)
(* heap is the service: the provider injected into it, the values of its   *)
(* six subjects, the requests it has subscribed to and the provider has    *)
(* not answered yet, and the number of requests issued so far. A request   *)
(* is never unsubscribed: its tap or catchError callback runs whenever the *)
(* provider answers or fails, which the mock provider does inside the call *)
(* for a well it does not hold. The class in that file declares no         *)
(* loadImportedData, which AppComponent calls: heap records whether the    *)
(* service at hand has the method. A well, its properties and its data are *)
(* the wellId they carry; a date is the fact that it is set. op and args   *)
(* are the last step taken, locals the provider calls that step made and   *)
(* ret what it threw.                                                      *)
(***************************************************************************)
MaxRequests == 3

WellIds == {"W1", "W2"}

\* an id the provider's well list does not hold
UnknownWellId == "W9"

\* the wells the provider answers getWellList with
ProviderWells == <<[wellId |-> "W1"], [wellId |-> "W2"]>>

\* the id of the well of an imported file: the provider does not hold it
ImportedWellId == "import-1"

\* the dataset the import dialog or the persistence service hands over
ImportedDataset ==
  [well           |-> [wellId |-> ImportedWellId],
   productionData |-> [wellId |-> ImportedWellId]]

\* the providers createDataProvider returns
DataProviders == {"mock", "http"}

\* typeof appState.loadImportedData: the class of
\* import-persistence.service.ts does not declare the method AppComponent
\* calls, the service the README describes does
LoadImportedDataTypes == {"undefined", "function"}

createInitialLoadingState ==
  [isLoading |-> FALSE, error |-> Undefined, lastUpdated |-> Undefined]

createInitialAppLoadingState ==
  [wellList       |-> createInitialLoadingState,
   wellProperties |-> createInitialLoadingState,
   productionData |-> createInitialLoadingState,
   pressureData   |-> createInitialLoadingState]

\* the service after construction
NewAppState(dataProvider, typeofLoadImportedData) ==
  [dataProvider   |-> dataProvider,
   typeofLoadImportedData |-> typeofLoadImportedData,
   called         |-> <<>>,
   wellList       |-> <<>>,
   selectedWell   |-> NoValue,
   wellProperties |-> NoValue,
   productionData |-> NoValue,
   pressureData   |-> <<>>,
   loadingState   |-> createInitialAppLoadingState,
   requests       |-> {},
   issued         |-> 0]

setLoadingState(app, section, isLoading, error) ==
  [app EXCEPT !.loadingState[section] =
     [isLoading   |-> isLoading,
      error       |-> error,
      lastUpdated |-> IF ~isLoading THEN Some("date")
                      ELSE app.loadingState[section].lastUpdated]]

isAnyLoading(app) ==
  \/ app.loadingState.wellList.isLoading
  \/ app.loadingState.wellProperties.isLoading
  \/ app.loadingState.productionData.isLoading
  \/ app.loadingState.pressureData.isLoading

\* the catchError callback of a request, run when the provider fails it
fail(app, request) ==
  setLoadingState([app EXCEPT !.requests = @ \ {request}],
                  request.section, FALSE, Some("message"))

\* MockDataProviderService.getWellProperties and getProductionData return
\* throwError(...) for a well they do not hold, which fails the request
\* inside subscribe(); every other request is answered or failed later
throwsError(dataProvider, section, wellId) ==
  /\ dataProvider = "mock"
  /\ section \in {"wellProperties", "productionData"}
  /\ \A k \in 1..Len(ProviderWells) : ProviderWells[k].wellId # wellId

\* dataProvider.getX(wellId).pipe(tap, catchError).subscribe()
subscribe(app, section, wellId) ==
  LET request == [id |-> app.issued + 1, section |-> section,
                  wellId |-> wellId]
      calling == [app EXCEPT !.issued = @ + 1,
                             !.called = Append(@, [section |-> section,
                                                   wellId  |-> wellId])]
  IN  IF throwsError(app.dataProvider, section, wellId)
      THEN fail(calling, request)
      ELSE [calling EXCEPT !.requests = @ \cup {request}]

loadWellList(app) ==
  subscribe(setLoadingState(app, "wellList", TRUE, Undefined), "wellList", "")

loadWellProperties(app, wellId) ==
  subscribe(setLoadingState(app, "wellProperties", TRUE, Undefined),
            "wellProperties", wellId)

\* wellListSubject.value.find(w => w.wellId === wellId)
findWell(wellList, wellId) ==
  LET found == {k \in 1..Len(wellList) : wellList[k].wellId = wellId}
  IN  IF found = {} THEN NoValue
      ELSE Some(wellList[CHOOSE k \in found : \A j \in found : k <= j])

\* selectWell keeping the production data of the previous well
selectWell_m(app, wellId) ==
  LET well == findWell(app.wellList, wellId)
  IN  IF well = NoValue THEN app
      ELSE loadWellProperties([app EXCEPT !.selectedWell   = well,
                                          !.wellProperties = NoValue,
                                          !.pressureData   = <<>>],
                              wellId)

selectWell(app, wellId) ==
  LET well == findWell(app.wellList, wellId)
  IN  IF well = NoValue THEN app
      ELSE loadWellProperties([app EXCEPT !.selectedWell   = well,
                                          !.wellProperties = NoValue,
                                          !.productionData = NoValue,
                                          !.pressureData   = <<>>],
                              wellId)

loadProductionData(app) ==
  IF app.selectedWell = NoValue THEN app
  ELSE IF /\ app.productionData # NoValue
          /\ app.productionData[1].wellId = app.selectedWell[1].wellId
       THEN app
  ELSE subscribe(setLoadingState(app, "productionData", TRUE, Undefined),
                 "productionData", app.selectedWell[1].wellId)

loadPressureData(app) ==
  IF app.selectedWell = NoValue THEN app
  ELSE subscribe(setLoadingState(app, "pressureData", TRUE, Undefined),
                 "pressureData", app.selectedWell[1].wellId)

\* the tap callback of a request, run when the provider answers it
respond(app, request) ==
  LET answered == [app EXCEPT !.requests = @ \ {request}]
      received ==
        CASE request.section = "wellList" ->
               [answered EXCEPT !.wellList = ProviderWells]
          [] request.section = "wellProperties" ->
               [answered EXCEPT
                  !.wellProperties = Some([wellId |-> request.wellId])]
          [] request.section = "productionData" ->
               [answered EXCEPT
                  !.productionData = Some([wellId |-> request.wellId])]
          [] request.section = "pressureData" ->
               [answered EXCEPT
                  !.pressureData = <<[wellId |-> request.wellId]>>]
  IN  setLoadingState(received, request.section, FALSE, Undefined)

\* loadImportedData(dataset): the imported well becomes the well list and
\* the selected well and its production data the production data, without a
\* call of the provider; properties is what the service then holds as the
\* properties of the imported well
loadImportedData(app, dataset, properties) ==
  [app EXCEPT !.wellList       = <<dataset.well>>,
              !.selectedWell   = Some(dataset.well),
              !.wellProperties = properties,
              !.productionData = Some(dataset.productionData),
              !.pressureData   = <<>>]

reset(app) ==
  [app EXCEPT !.wellList       = <<>>,
              !.selectedWell   = NoValue,
              !.wellProperties = NoValue,
              !.productionData = NoValue,
              !.pressureData   = <<>>,
              !.loadingState   = createInitialAppLoadingState]

InitApp ==
  /\ pc = "idle"
  /\ op = "constructor"
  /\ args = <<>>
  /\ locals = <<>>
  /\ ret = NoValue
  /\ \E dataProvider \in DataProviders :
       \E typeofLoadImportedData \in LoadImportedDataTypes :
         heap = NewAppState(dataProvider, typeofLoadImportedData)
  /\ out = <<>>
  /\ log = <<>>

\* a call of the service that returns heap' is allowed while the number of
\* requests it has issued stays within MaxRequests; locals' is the provider
\* calls it made
AppCall(name, arguments, app) ==
  /\ app.issued <= MaxRequests
  /\ op' = name
  /\ args' = arguments
  /\ locals' = app.called
  /\ ret' = NoValue
  /\ heap' = [app EXCEPT !.called = <<>>]
  /\ UNCHANGED <<pc, out, log>>

Initialize == AppCall("initialize", <<>>, loadWellList(heap))

SelectWell ==
  \E wellId \in WellIds \cup {UnknownWellId, ImportedWellId} :
    AppCall("selectWell", [wellId |-> wellId], selectWell(heap, wellId))

LoadProductionData ==
  AppCall("loadProductionData", <<>>, loadProductionData(heap))

LoadPressureData == AppCall("loadPressureData", <<>>, loadPressureData(heap))

Respond ==
  \E request \in heap.requests :
    AppCall("response", [request |-> request], respond(heap, request))

\* the mock provider answers every request it has not failed at once
Fail ==
  /\ heap.dataProvider = "http"
  /\ \E request \in heap.requests :
       AppCall("error", [request |-> request], fail(heap, request))

\* the import dialog has closed with a dataset, or a saved one was found at
\* start: this.appState.loadImportedData(dataset) throws a TypeError and
\* leaves the service as it was when the service has no such method
LoadImportedData ==
  \/ /\ heap.typeofLoadImportedData = "undefined"
     /\ op' = "loadImportedData"
     /\ args' = [dataset |-> ImportedDataset]
     /\ locals' = <<>>
     /\ ret' = TypeError
     /\ UNCHANGED <<pc, heap, out, log>>
  \/ /\ heap.typeofLoadImportedData = "function"
     /\ \E properties \in
            {NoValue, Some([wellId |-> ImportedDataset.well.wellId])} :
          AppCall("loadImportedData", [dataset |-> ImportedDataset],
                  loadImportedData(heap, ImportedDataset, properties))

Reset == AppCall("reset", <<>>, reset(heap))

NextApp ==
  \/ Initialize
  \/ SelectWell
  \/ LoadProductionData
  \/ LoadPressureData
  \/ Respond
  \/ Fail
  \/ LoadImportedData
  \/ Reset

SpecApp == InitApp /\ [][NextApp]_vars

(***************************************************************************)
(* Properties                                                              *)
(***************************************************************************)
Returned(o) == pc = "returned" /\ op = o

\* finite and strictly greater than 0
FinitePositive(v) == IsFinite(v) /\ Gt(v, Zero)

\* C1: the four cleaned arrays returned by calculate have one length M <= N,
\* and at every index all four values are finite and strictly positive
C1_CleanedParallelPositive ==
  Returned("calculate") =>
    LET v == ret.value
        M == Len(v.materialBalanceTime)
    IN  /\ Len(v.qDd) = M /\ Len(v.qDdi) = M /\ Len(v.qDdid) = M
        /\ M <= Len(args.rates)
        /\ \A k \in 1..M :
             /\ FinitePositive(v.materialBalanceTime[k])
             /\ FinitePositive(v.qDd[k])
             /\ FinitePositive(v.qDdi[k])
             /\ FinitePositive(v.qDdid[k])

\* C1 witness: a call that kept at least two points and removed at least two
C1_Witness ==
  /\ Returned("calculate")
  /\ Len(ret.value.qDd) >= 2
  /\ Len(ret.value.qDd) + 2 <= Len(args.rates)

\* the pressure series is supplied with the length of the production series
PressureMeasured ==
  args.pressures # Undefined /\ Len(args.pressures[1]) = Len(args.dates)

\* C2: with a pressure series of the production series' length, every
\* pressure drop is max(initialPressure - pressure[i], 100)
C2_PressureDropFloor ==
  (Returned("calculate") /\ PressureMeasured) =>
    /\ Len(ret.value.pressureDrops) = Len(args.pressures[1])
    /\ \A k \in 1..Len(args.pressures[1]) :
         ret.value.pressureDrops[k] =
           MathMax(Sub(args.initialPressure, args.pressures[1][k]), Num(100))

\* rates strictly positive and strictly declining
DecliningRates(rates) ==
  /\ \A k \in 1..Len(rates) : Gt(rates[k], Zero)
  /\ \A k \in 1..(Len(rates) - 1) : Gt(rates[k], rates[k + 1])

\* the case of C4: declining positive rates, every measured pressure below
\* the initial pressure, all series of one length, a non-empty cleaned result
C4_Case ==
  /\ Returned("calculate")
  /\ PressureMeasured
  /\ Len(args.rates) = Len(args.dates)
  /\ Len(args.cumulativeProduction) = Len(args.dates)
  /\ DecliningRates(args.rates)
  /\ \A k \in 1..Len(args.rates) : Lt(args.pressures[1][k], args.initialPressure)
  /\ Len(ret.value.qDd) >= 1

\* rate[i] / (initialPressure - pressure[i]) for the 0-based input index i
NormalizedInputRate(i) ==
  Div(args.rates[i + 1], Sub(args.initialPressure, args.pressures[1][i + 1]))

\* C4 as stated: the first element of the returned qDd is the normalized
\* rate of the first input point
C4_FirstIsFirstInputPoint == C4_Case => ret.value.qDd[1] = NormalizedInputRate(0)

\* all four pre-cleaning values at the 0-based index i are finite and positive
SurvivesCleaning(i) ==
  /\ FinitePositive(At(locals.materialBalanceTime, i))
  /\ FinitePositive(At(locals.qDd, i))
  /\ FinitePositive(At(locals.qDdi, i))
  /\ FinitePositive(At(locals.qDdid, i))

\* C4 amended: the first element of the returned qDd is the normalized rate
\* of the first input point that survives cleaning, which is never point 0
C4_FirstIsFirstSurvivor ==
  C4_Case =>
    \E i \in 1..(Len(args.rates) - 1) :
      /\ SurvivesCleaning(i)
      /\ \A j \in 0..(i - 1) : ~SurvivesCleaning(j)
      /\ ret.value.qDd[1] = NormalizedInputRate(i)

\* C4 witness: the case, with the first survivor's value differing from point 0's
C4_Witness == C4_Case /\ ret.value.qDd[1] # NormalizedInputRate(0)

\* C7: material balance time before cleaning is cumulative/rate at a positive
\* rate, the previous value at a zero rate, and 0.001 at a leading zero rate
C7_MaterialBalanceTime ==
  Returned("calculate") =>
    LET te == locals.materialBalanceTime
    IN  /\ Len(te) = Len(args.rates)
        /\ \A k \in 1..Len(args.rates) :
             /\ Gt(args.rates[k], Zero) =>
                  te[k] = Div(At(args.cumulativeProduction, k - 1), args.rates[k])
             /\ (Eq(args.rates[k], Zero) /\ k > 1) => te[k] = te[k - 1]
             /\ (Eq(args.rates[k], Zero) /\ k = 1) => te[k] = Norm(1, 1000)

\* C7 witness: a leading zero rate, a later zero rate after a positive one
C7_Witness ==
  /\ Returned("calculate")
  /\ Len(args.rates) >= 3
  /\ Eq(args.rates[1], Zero)
  /\ Gt(args.rates[2], Zero)
  /\ Eq(args.rates[3], Zero)
  /\ locals.materialBalanceTime[3] = locals.materialBalanceTime[2]

\* the call of calculate with the pressure series left out
WithoutPressures(input) == [input EXCEPT !.pressures = Undefined]

\* C8: with the pressure series absent or of another length, every pressure
\* drop is 0.35 * initialPressure, one per production point, and the result
\* is the result of the same call without the pressure series
C8_PressureFallback ==
  (Returned("calculate") /\ ~PressureMeasured) =>
    /\ Len(ret.value.pressureDrops) = Len(args.dates)
    /\ \A k \in 1..Len(args.dates) :
         ret.value.pressureDrops[k] = Mul(Norm(35, 100), args.initialPressure)
    /\ ret = calculate(WithoutPressures(args))

\* C8 witness: a pressure series of another length was supplied
C8_Witness ==
  /\ Returned("calculate")
  /\ args.pressures # Undefined
  /\ Len(args.pressures[1]) # Len(args.dates)
  /\ Len(args.dates) >= 2

\* the case of C3: non-empty series, equal at every index (no NaN: NaN
\* equals nothing)
C3_Case ==
  /\ Returned("calculateMatchQuality")
  /\ Len(args.calculated) >= 1
  /\ Len(args.theoretical) = Len(args.calculated)
  /\ \A k \in 1..Len(args.calculated) :
       ~IsNaN(args.calculated[k]) /\ args.theoretical[k] = args.calculated[k]

\* C3 as stated: a perfect match gives rSquared 1, rmse 0 and mae 0
C3_PerfectMatchIsOne ==
  C3_Case => ret.rSquared = Num(1) /\ ret.rmse = Zero /\ ret.mae = Zero

\* C3 amended: a perfect match gives rmse 0 and mae 0, and rSquared 1 when
\* some pair survives the filter and the total sum of squares, as the
\* doubles compute it, is above 0, else 0
C3_PerfectMatch ==
  C3_Case =>
    /\ ret.rmse = Zero
    /\ ret.mae = Zero
    /\ ret.rSquared =
         (IF Len(locals.validPairs) > 0 /\ Gt(locals.ssTot, Zero)
            THEN Num(1) ELSE Zero)

\* C3 witness: a perfect match of two different values, scored 1
C3_Witness ==
  /\ C3_Case
  /\ Len(locals.validPairs) = 2
  /\ locals.validPairs[1].c # locals.validPairs[2].c
  /\ ret.rSquared = Num(1)

\* C5: for a non-empty input of length M the segments are non-empty, start
\* at 0, end at M-1, have startIndex <= endIndex and follow one another
C5_SegmentsCover ==
  (Returned("identifyFlowRegimes") /\ Len(args.materialBalanceTime) >= 1) =>
    LET M == Len(args.materialBalanceTime)
    IN  /\ Len(ret) >= 1
        /\ ret[1].startIndex = 0
        /\ ret[Len(ret)].endIndex = M - 1
        /\ \A k \in 1..Len(ret) : ret[k].startIndex <= ret[k].endIndex
        /\ \A k \in 1..(Len(ret) - 1) :
             ret[k + 1].startIndex = ret[k].endIndex + 1

\* C5 witness: a series split into at least three segments
C5_Witness == Returned("identifyFlowRegimes") /\ Len(ret) >= 3

\* the regime the thresholds give a slope; none for NaN
RegimeOfSlope(slope) ==
  IF Gt(slope, Norm(-3, 10)) THEN "infinite-acting"
  ELSE IF Ge(slope, Norm(-7, 10)) /\ Le(slope, Norm(-3, 10)) THEN "transition"
  ELSE IF Ge(slope, Norm(-13, 10)) /\ Lt(slope, Norm(-7, 10))
    THEN "boundary-dominated"
  ELSE IF Lt(slope, Norm(-13, 10)) THEN "depletion"
  ELSE "none"

\* C6: every index of every segment, index 0 included, has the segment's
\* regime as the regime of its own slope
C6_EveryPointByOwnSlope ==
  Returned("identifyFlowRegimes") =>
    \A k \in 1..Len(ret) : \A i \in ret[k].startIndex..ret[k].endIndex :
      RegimeOfSlope(At(locals.slopes, i)) \in {ret[k].regime, "none"}

\* lengths of dates, rates and cumulativeProduction are not all the same
ShapeMismatch ==
  \/ Len(args.dates) # Len(args.rates)
  \/ Len(args.rates) # Len(args.cumulativeProduction)

\* kh or drainageArea is zero or negative
ScaleNotPositive ==
  \/ Le(args.matchParams.kh, Zero)
  \/ Le(args.matchParams.drainageArea, Zero)

\* C9: calculate raises an error on series of different lengths and
\* generateTheoreticalCurves raises one when kh <= 0 or drainageArea <= 0
C9_InvalidConfigurationRaises ==
  /\ (Returned("calculate") /\ ShapeMismatch) => ret.threw
  /\ (Returned("generateTheoreticalCurves") /\ ScaleNotPositive) => ret.threw

\* some element of the array is NaN
HasNaN(a) == \E k \in 1..Len(a) : IsNaN(a[k])

\* C10: no element of the arrays returned by generateTheoreticalCurves and
\* no field of the result of calculateMatchQuality is NaN
C10_NoNaNReturned ==
  /\ Returned("generateTheoreticalCurves") =>
       /\ ~HasNaN(ret.value.teDimensionless)
       /\ ~HasNaN(ret.value.qDd)
       /\ ~HasNaN(ret.value.qDdi)
       /\ ~HasNaN(ret.value.qDdid)
  /\ Returned("calculateMatchQuality") =>
       ~IsNaN(ret.rSquared) /\ ~IsNaN(ret.rmse) /\ ~IsNaN(ret.mae)

\* the raw value 1 - ssRes/ssTot of a call that reached the sums is negative
RawRSquaredNegative ==
  /\ Len(args.calculated) > 0 /\ Len(args.theoretical) > 0
  /\ Len(locals.validPairs) > 0
  /\ Lt(locals.rSquared, Zero)

\* C11: the rSquared returned by calculateMatchQuality lies in [0, 1], and
\* it is exactly 0 whenever the raw value 1 - ssRes/ssTot is negative
C11_RSquaredClamped ==
  Returned("calculateMatchQuality") =>
    /\ Ge(ret.rSquared, Zero)
    /\ Le(ret.rSquared, Num(1))
    /\ (RawRSquaredNegative => ret.rSquared = Zero)

\* the calculated values that survive pair filtering all equal each other
C12_Case ==
  /\ Returned("calculateMatchQuality")
  /\ Len(args.calculated) > 0 /\ Len(args.theoretical) > 0
  /\ Len(locals.validPairs) > 0
  /\ \A j, k \in 1..Len(locals.validPairs) :
       locals.validPairs[j].c = locals.validPairs[k].c

\* the sum of (c - t)^2 over the first n surviving pairs
RECURSIVE SquaredResiduals(_, _)
SquaredResiduals(pairs, n) ==
  IF n = 0 THEN Zero
  ELSE Add(SquaredResiduals(pairs, n - 1),
           Mul(Sub(pairs[n].c, pairs[n].t), Sub(pairs[n].c, pairs[n].t)))

\* the sum of |c - t| over the first n surviving pairs
RECURSIVE AbsResiduals(_, _)
AbsResiduals(pairs, n) ==
  IF n = 0 THEN Zero
  ELSE Add(AbsResiduals(pairs, n - 1), MathAbs(Sub(pairs[n].c, pairs[n].t)))

\* C12: when the surviving calculated values are all equal the total sum of
\* squares is 0 and rSquared is returned as 0, while rmse and mae are the
\* root mean square and the mean absolute value of the residuals
C12_ZeroVariance ==
  C12_Case =>
    LET n == Len(locals.validPairs)
    IN  /\ locals.ssTot = Zero
        /\ ret.rSquared = Zero
        /\ ret.rmse = MathSqrt(Div(SquaredResiduals(locals.validPairs, n), Num(n)))
        /\ ret.mae = Div(AbsResiduals(locals.validPairs, n), Num(n))

\* calculate has returned for an input with at least one zero rate
C13_Case ==
  /\ Returned("calculate")
  /\ \E k \in 1..Len(args.rates) : Eq(args.rates[k], Zero)

\* C13: with a zero rate in the input calculate returns without raising, no
\* point whose rate is 0 is among the points kept by cleaning, and the
\* number M of kept points is strictly less than the number N of rates
C13_ZeroRatesDropped ==
  C13_Case =>
    /\ ~ret.threw
    /\ \A i \in 0..(Len(args.rates) - 1) :
         Eq(args.rates[i + 1], Zero) => ~SurvivesCleaning(i)
    /\ Len(ret.value.qDd) =
         Cardinality({i \in 0..(Len(args.rates) - 1) : SurvivesCleaning(i)})
    /\ Len(ret.value.qDd) < Len(args.rates)

\* C13 witness: a zero rate after the first point whose material balance
\* time, rate integral and derivative are all positive, beside a kept point
C13_Witness ==
  /\ C13_Case
  /\ Len(ret.value.qDd) >= 1
  /\ \E i \in 1..(Len(args.rates) - 1) :
       /\ Eq(args.rates[i + 1], Zero)
       /\ FinitePositive(At(locals.materialBalanceTime, i))
       /\ FinitePositive(At(locals.qDdi, i))
       /\ FinitePositive(At(locals.qDdid, i))

\* C15: once calculate has returned, the contents of the arrays of the
\* returned BlasingameOutput never change while the caller holds it, in
\* particular not when the caller writes into its input rates array
C15_OutputImmutable ==
  [][(out.generation > 0 /\ out'.generation = out.generation)
       => OutputHeld' = OutputHeld]_vars

\* max(1 / (sqrt(tD) + 0.1 * exp(min(skinFactor, 5))), 0.01), or 0 at tD <= 0
TheoreticalRate(tD, skinFactor) ==
  IF Le(tD, Zero) THEN Zero
  ELSE MathMax(Div(Num(1),
                   Add(MathSqrt(tD),
                       Mul(Norm(1, 10), MathExp(MathMin(skinFactor, Num(5)))))),
               Norm(1, 100))

\* C16: the theoretical qDd at index i is 0 when tD[i] <= 0 and otherwise
\* max(1/(sqrt(tD[i]) + 0.1*exp(min(skinFactor, 5))), 0.01); at a positive
\* tD it is at least 0.01; a skinFactor >= 5 gives the curve of skinFactor 5;
\* a negative skinFactor enters the formula as it is
C16_TheoreticalRate ==
  Returned("generateTheoreticalCurves") =>
    LET tD   == ret.value.teDimensionless
        skin == args.matchParams.skinFactor
    IN  /\ Len(ret.value.qDd) = Len(tD)
        /\ \A k \in 1..Len(tD) :
             /\ ret.value.qDd[k] = TheoreticalRate(tD[k], skin)
             /\ Gt(tD[k], Zero) => Ge(ret.value.qDd[k], Norm(1, 100))
             /\ Ge(skin, Num(5)) =>
                  ret.value.qDd[k] = TheoreticalRate(tD[k], Num(5))
             /\ Lt(skin, Zero) =>
                  ret.value.qDd[k] =
                    (IF Le(tD[k], Zero) THEN Zero
                     ELSE MathMax(Div(Num(1),
                                      Add(MathSqrt(tD[k]),
                                          Mul(Norm(1, 10), MathExp(skin)))),
                                  Norm(1, 100)))

\* C16 witness: a positive tD whose response 1/(sqrt(tD) + ...) is below
\* 0.01 and is returned as 0.01
C16_Witness ==
  /\ Returned("generateTheoreticalCurves")
  /\ \E k \in 1..Len(ret.value.qDd) :
       /\ Gt(ret.value.teDimensionless[k], Zero)
       /\ Lt(Div(Num(1), Add(MathSqrt(ret.value.teDimensionless[k]),
                             Mul(Norm(1, 10),
                                 MathExp(MathMin(args.matchParams.skinFactor,
                                                 Num(5)))))),
             Norm(1, 100))
       /\ ret.value.qDd[k] = Norm(1, 100)

\* (I[i+1] - I[i-1]) / (tD[i+1] - tD[i-1]) at the 0-based index i
CentralDifference(tD, integral, i) ==
  Div(Sub(At(integral, i + 1), At(integral, i - 1)),
      Sub(At(tD, i + 1), At(tD, i - 1)))

\* the first element is the value at index 1, the last the value at the
\* second-to-last index, for every length greater than 1
EndpointsCopied(derivative) ==
  LET n == Len(derivative)
  IN  n > 1 => /\ At(derivative, 0) = At(derivative, 1)
               /\ At(derivative, n - 1) = At(derivative, n - 2)

\* C17 as stated: the theoretical derivative is the central difference at
\* every interior index, and its endpoints repeat their interior neighbours
C17_CentralDifferenceEverywhere ==
  Returned("generateTheoreticalCurves") =>
    LET tD == ret.value.teDimensionless
        n  == Len(ret.value.qDdid)
    IN  /\ n = Len(tD)
        /\ \A i \in 1..(n - 2) :
             At(ret.value.qDdid, i) = CentralDifference(tD, ret.value.qDdi, i)
        /\ EndpointsCopied(ret.value.qDdid)

\* C17: the theoretical derivative at an interior index i is the central
\* difference (I[i+1] - I[i-1]) / (tD[i+1] - tD[i-1]) when tD[i+1] - tD[i-1]
\* is greater than 0 and is 0 otherwise; for every length greater than 1 the
\* first element equals the value at index 1 and the last element equals the
\* value at the second-to-last index
C17_CentralDifference ==
  Returned("generateTheoreticalCurves") =>
    LET tD == ret.value.teDimensionless
        n  == Len(ret.value.qDdid)
    IN  /\ n = Len(tD)
        /\ \A i \in 1..(n - 2) :
             At(ret.value.qDdid, i) =
               (IF Gt(Sub(At(tD, i + 1), At(tD, i - 1)), Zero)
                  THEN CentralDifference(tD, ret.value.qDdi, i)
                  ELSE Zero)
        /\ EndpointsCopied(ret.value.qDdid)

\* C17 witness: a curve of at least four points with one interior index where
\* tD[i+1] > tD[i-1] and the derivative is not 0, and another where
\* tD[i+1] <= tD[i-1]
C17_Witness ==
  /\ Returned("generateTheoreticalCurves")
  /\ Len(ret.value.qDdid) >= 4
  /\ \E i, j \in 1..(Len(ret.value.qDdid) - 2) :
       /\ Gt(Sub(At(ret.value.teDimensionless, i + 1),
                 At(ret.value.teDimensionless, i - 1)), Zero)
       /\ At(ret.value.qDdid, i) # Zero
       /\ Le(Sub(At(ret.value.teDimensionless, j + 1),
                 At(ret.value.teDimensionless, j - 1)), Zero)
       /\ At(ret.value.qDdid, j) = Zero
  /\ At(ret.value.qDdid, 0) # Zero

\* the indices of a..b whose slope is finite
FiniteIndices(slopes, a, b) == {i \in a..b : IsFinite(At(slopes, i))}

\* the sum of the slopes at the indices of S, added in increasing order of
\* the index
RECURSIVE SumAt(_, _)
SumAt(slopes, S) ==
  IF S = {} THEN Zero
  ELSE LET i == CHOOSE j \in S : \A k \in S : j >= k
       IN  Add(SumAt(slopes, S \ {i}), At(slopes, i))

\* C18: the diagnosticSlope of every returned segment is the arithmetic mean
\* of the finite point slopes at startIndex..endIndex; a non-finite slope
\* adds nothing to the sum and nothing to the count; a segment with no
\* finite slope has diagnosticSlope 0
C18_DiagnosticSlopeIsMean ==
  Returned("identifyFlowRegimes") =>
    \A k \in 1..Len(ret) :
      LET S == FiniteIndices(locals.slopes, ret[k].startIndex, ret[k].endIndex)
      IN  ret[k].diagnosticSlope =
            (IF S = {} THEN Zero
             ELSE Div(SumAt(locals.slopes, S), Num(Cardinality(S))))

\* C18 witness: a segment that holds a non-finite slope and finite slopes
\* whose sum is not 0
C18_Witness ==
  /\ Returned("identifyFlowRegimes")
  /\ \E k \in 1..Len(ret) :
       LET S == FiniteIndices(locals.slopes, ret[k].startIndex, ret[k].endIndex)
       IN  /\ Cardinality(S) >= 2
           /\ Cardinality(S) < ret[k].endIndex - ret[k].startIndex + 1
           /\ ret[k].diagnosticSlope # Zero
           /\ \E i, j \in S : At(locals.slopes, i) # At(locals.slopes, j)

\* the series has points and the log-log slope is -0.5 at every one of them
SlopeMinusHalfEverywhere ==
  /\ Len(args.materialBalanceTime) >= 1
  /\ Len(locals.slopes) = Len(args.materialBalanceTime)
  /\ \A i \in 0..(Len(locals.slopes) - 1) : At(locals.slopes, i) = Norm(-1, 2)

\* C19: for a series whose log-log slope is -0.5 at every point the first
\* segment is infinite-acting and its diagnosticSlope is strictly between
\* -1.0 and 0
C19_LinearFlowFirstSegment ==
  (Returned("identifyFlowRegimes") /\ SlopeMinusHalfEverywhere) =>
    /\ Len(ret) >= 1
    /\ ret[1].regime = "infinite-acting"
    /\ Gt(ret[1].diagnosticSlope, Num(-1))
    /\ Lt(ret[1].diagnosticSlope, Zero)

\* C19 witness: a linear-flow series of at least three points has been
\* classified
C19_Witness ==
  /\ Returned("identifyFlowRegimes")
  /\ SlopeMinusHalfEverywhere
  /\ Len(args.materialBalanceTime) >= 3
  /\ ret[1].diagnosticSlope = Norm(-1, 2)

\* a load directly after a save whose text was stored
LoadedAfterSave == op = "load" /\ locals.previous = "save" /\ locals.stored

\* C20: save(d) followed by load() returns a dataset equal to d in every
\* field, also when the pressure array of d holds NaN placeholders
C20_SaveLoadRoundTrip ==
  LoadedAfterSave => (~ret.isNull /\ ret.value = args.dataset)

\* output[i] = output[i-1] + (y[i] + y[i-1])/2 * (x[i] - x[i-1]) for i in 1..n-1
TrapezoidRecurrence(x, y, output) ==
  \A i \in 1..(Len(x) - 1) :
    At(output, i) = Add(At(output, i - 1),
                        Mul(Div(Add(At(y, i), At(y, i - 1)), Num(2)),
                            Sub(At(x, i), At(x, i - 1))))

\* C21: trapezoidalIntegrate(x, y) returns a sequence of length len(x); when
\* len(x) >= 1 its first element is 0 and every later element adds the
\* trapezoid between its point and the one before
C21_TrapezoidalIntegrate ==
  Returned("calculate") =>
    LET x == locals.materialBalanceTime
    IN  /\ Len(locals.integral) = Len(x)
        /\ Len(x) >= 1 => At(locals.integral, 0) = Zero
        /\ TrapezoidRecurrence(x, locals.qDd, locals.integral)

\* both values of the pair are finite and strictly positive
PairPasses(pair) ==
  /\ pair.c[4] < 1024 /\ pair.t[4] < 1024
  /\ pair.c[1] > 0 /\ pair.t[1] > 0
  /\ ~IsZero(pair.c) /\ ~IsZero(pair.t)

\* the index pairs of the call that pass, in index order
PassingPairs ==
  SelectSeq([k \in 1..Len(args.calculated) |->
               [c |-> args.calculated[k], t |-> At(args.theoretical, k - 1)]],
            PairPasses)

\* C22: the result of calculateMatchQuality is the result for the passing
\* pairs alone, whatever the pairs that fail the test hold; when an input
\* is empty or no pair passes the result is {rSquared: 0, rmse: 0, mae: 0}
C22_OnlyPassingPairs ==
  Returned("calculateMatchQuality") =>
    /\ ret = calculateMatchQuality(
               Array([k \in 1..Len(PassingPairs) |-> PassingPairs[k].c]),
               Array([k \in 1..Len(PassingPairs) |-> PassingPairs[k].t]))
    /\ (Len(args.calculated) = 0 \/ Len(args.theoretical) = 0
        \/ Len(PassingPairs) = 0) =>
         ret = [rSquared |-> Zero, rmse |-> Zero, mae |-> Zero]

\* C22 witness: a call whose first pair fails the test and whose second
\* pair passes with different values
C22_Witness ==
  /\ Returned("calculateMatchQuality")
  /\ Len(args.calculated) = 2
  /\ Len(PassingPairs) = 1
  /\ PairPasses([c |-> args.calculated[2], t |-> At(args.theoretical, 1)])
  /\ IsFinite(args.calculated[1]) /\ Gt(args.calculated[1], Zero)
  /\ ret.rmse # Zero

\* the dates of the data lines that parse, in file order
ParsedDates ==
  LET valid == SelectSeq(args.file.lines, LAMBDA line : line.date # Undefined)
  IN  [k \in 1..Len(valid) |-> valid[k].date[1]]

NonDecreasing(dates) == \A k \in 2..Len(dates) : dates[k - 1] <= dates[k]

\* parseCSV went past its early returns and sorted the rows
SortReached ==
  /\ Returned("parseCSV")
  /\ args.file.header.date
  /\ \/ args.file.header.oilRate
     \/ args.file.header.gasRate
     \/ args.file.header.waterRate
  /\ Len(ParsedDates) >= 2

\* C23: the rows parseCSV returns are in non-decreasing date order, and the
\* 'Dates were not in chronological order' warning is among the warnings
\* exactly when the rows of the file were not in non-decreasing date order
C23_ChronologicalWarning ==
  SortReached =>
    /\ NonDecreasing([k \in 1..Len(ret.rows) |-> ret.rows[k].date])
    /\ (\E w \in 1..Len(ret.warnings) :
          ret.warnings[w].message = ChronologicalWarning)
       <=> ~NonDecreasing(ParsedDates)

\* the well list holds a well of this id
InWellList(app, wellId) ==
  \E k \in 1..Len(app.wellList) : app.wellList[k].wellId = wellId

\* the requests the step has started and left outstanding
StartedRequests == heap'.requests \ heap.requests

OfSelectedWell(held) ==
  held # NoValue =>
    /\ heap.selectedWell # NoValue
    /\ held[1].wellId = heap.selectedWell[1].wellId

\* C26: under every interleaving of selectWell, loadProductionData, reset
\* and the provider's answers, the well properties and the production data
\* the service holds, when not null, carry the wellId of the currently
\* selected well.
C26_DataOfSelectedWell ==
  /\ OfSelectedWell(heap.wellProperties)
  /\ OfSelectedWell(heap.productionData)

\* a provider request of the section is outstanding
Outstanding(section) == \E request \in heap.requests : request.section = section

\* C27: for each section of the loading state (wellList, wellProperties,
\* productionData, pressureData) isLoading is true exactly while at least one
\* provider request of that section is outstanding, under every interleaving
\* of overlapping loads, answers, errors and reset; and once every request
\* has completed or failed, isAnyLoading() is false.
C27_LoadingWhileOutstanding ==
  /\ \A section \in DOMAIN heap.loadingState :
       heap.loadingState[section].isLoading <=> Outstanding(section)
  /\ heap.requests = {} => ~isAnyLoading(heap)

\* the stored text is not valid JSON
InvalidJson(item) == item.kind \in {"empty", "corrupt"}

\* the stored text is an object whose version is not the current one
VersionDiffers(item) ==
  item.kind = "object" /\ ParseNumber(item.text.version) # Num(CURRENT_VERSION)

\* C25: load() returns null and removes the stored entry when the stored text
\* is not valid JSON or its version differs from the current version, so that
\* has() is false afterwards; and load() raises no error, whatever the stored
\* text is.
C25_LoadDiscards ==
  [][op' = "load" =>
       /\ ret' # TypeError
       /\ (InvalidJson(heap[STORAGE_KEY]) \/ VersionDiffers(heap[STORAGE_KEY]))
            => (ret' = NullResult /\ ~has(heap'))]_vars

\* C28: the first input point never survives cleaning: for every input of
\* length N >= 1 the rate integral at index 0 is 0, and each cleaned array
\* calculate returns has at most N - 1 elements.
C28_FirstPointRemoved ==
  (Returned("calculate") /\ Len(args.rates) >= 1) =>
     /\ At(locals.qDdi, 0) = Zero
     /\ Len(ret.value.materialBalanceTime) <= Len(args.rates) - 1
     /\ Len(ret.value.qDd) <= Len(args.rates) - 1
     /\ Len(ret.value.qDdi) <= Len(args.rates) - 1
     /\ Len(ret.value.qDdid) <= Len(args.rates) - 1

\* every point but the first one survived
C28_Witness ==
  /\ Returned("calculate")
  /\ Len(args.rates) >= 2
  /\ Gt(At(locals.materialBalanceTime, 0), Zero)
  /\ Gt(At(locals.qDd, 0), Zero)
  /\ Len(ret.value.qDdi) = Len(args.rates) - 1

\* C29: for every input length M >= 0 every segment identifyFlowRegimes
\* returns has 0 <= startIndex <= endIndex <= M - 1; for empty input no
\* segment is returned.
C29_SegmentBounds ==
  Returned("identifyFlowRegimes") =>
    /\ \A k \in 1..Len(ret) :
         /\ 0 <= ret[k].startIndex
         /\ ret[k].startIndex <= ret[k].endIndex
         /\ ret[k].endIndex <= Len(args.materialBalanceTime) - 1
    /\ Len(args.materialBalanceTime) = 0 => Len(ret) = 0

\* the k-th cleaned values are the values before cleaning at index idx[k]
SelectedBy(idx) ==
  /\ Len(ret.value.materialBalanceTime) = Len(idx)
  /\ Len(ret.value.qDd) = Len(idx)
  /\ Len(ret.value.qDdi) = Len(idx)
  /\ Len(ret.value.qDdid) = Len(idx)
  /\ \A k \in 1..Len(idx) :
       /\ ret.value.materialBalanceTime[k] = At(locals.materialBalanceTime, idx[k])
       /\ ret.value.qDd[k] = At(locals.qDd, idx[k])
       /\ ret.value.qDdi[k] = At(locals.qDdi, idx[k])
       /\ ret.value.qDdid[k] = At(locals.qDdid, idx[k])

\* all four values before cleaning are finite and positive at index i
FinitePositiveAt(i) ==
  \A v \in {At(locals.materialBalanceTime, i), At(locals.qDd, i),
            At(locals.qDdi, i), At(locals.qDdid, i)} :
    v[4] < 1024 /\ v[1] > 0 /\ ~IsZero(v)

\* the indices of a set in strictly increasing order
RECURSIVE Increasing(_)
Increasing(indices) ==
  IF indices = {} THEN <<>>
  ELSE LET first == CHOOSE i \in indices : \A j \in indices : i <= j
       IN  <<first>> \o Increasing(indices \ {first})

\* C30: the cleaned arrays calculate returns are an order-preserving selection
\* of one common index set: there are input indices i_0 < ... < i_(M-1) such
\* that the k-th elements of materialBalanceTime, qDd, qDdi and qDdid are the
\* values before cleaning at index i_k, and every index at which all four
\* values before cleaning are finite and positive is among them.
C30_CommonSelection ==
  Returned("calculate") =>
    \E indices \in SUBSET (0..(Len(args.rates) - 1)) :
      /\ SelectedBy(Increasing(indices))
      /\ \A i \in 0..(Len(args.rates) - 1) :
           FinitePositiveAt(i) => i \in indices

\* two points survived and one between or before them did not
C30_Witness ==
  /\ Returned("calculate")
  /\ Len(ret.value.qDd) >= 2
  /\ Len(ret.value.qDd) < Len(args.rates) - 1

====
